---- MODULE Spec2Model ----
(***************************************************************************)
(* Football-Analysis: the tactical ML service (training, persistence and   *)
(* inference of the model bundle), the sliding-window sample builder and   *)
(* the heuristic recommendation step of the match analysis.                *)
(*                                                                         *)
(* The specifications below share the variables:                           *)
(*   Spec           one TacticalMLService with concurrent train_model and  *)
(*                  predict calls (tactical_ml_service.py)                 *)
(*   SpecSamples    _build_samples_for_team over the fingerprint lists the *)
(*                  normalizer can return                                  *)
(*   SpecAnalyze    analyze_match -> predict -> generate_recommendations   *)
(*   SpecNormalize  _normalize_tactical_from_events over one match's rows  *)
(*   SpecShot       the per-shot xG proxy of the normalizer                *)
(*   SpecRecent     get_recent_games_tactical over a team's finished       *)
(*                  matches                                                *)
(*   SpecAggregate  _aggregate_history_window over a history window        *)
(*   SpecConfidence _calculate_confidence of the recommendation engine     *)
(*   SpecCollect    _collect_dataset over leagues and teams                *)
(*   SpecRisk       the risk score and hints predict derives from the      *)
(*                  estimators' outputs                                    *)
(*   SpecBlend      _blend_profiles of the recommendation service          *)
(*   SpecAdjust     _confidence_adjustment of the recommendation service   *)
(*   SpecFetch      SofaScoreService._get over its base URLs               *)
(*   SpecFeatures   the history window of _build_features_from_profile     *)
(*   SpecEngine     the banding rules of the recommendation engine         *)
(*   SpecFair       Spec with the scheduling of the event loop             *)
(***************************************************************************)
EXTENDS Integers, Sequences, FiniteSets, TLC

VARIABLES
    \* ---- TacticalMLService (Spec) ----
    enabled,        \* self.enabled
    model_bundle,   \* self._model_bundle: <<>> is None, <<b>> a loaded bundle
    model_file,     \* the file at self.model_path
    last_error,     \* self._last_error
    train_locked,   \* self._train_lock._locked
    lock_waiters,   \* self._train_lock._waiters, FIFO
    train_pc,       \* position of each train_model call
    train_force,    \* its force argument
    train_n,        \* its n_samples (-1 before the dataset is collected)
    train_pre,      \* the file and the bundle when the call took the lock
    train_new,      \* its local `bundle`
    train_result,   \* what the call returned
    clock,          \* source of model_version / trained_at
    made,           \* every complete bundle ever loaded or built
    ever_loaded,    \* a load or a training run has installed a bundle
    pred_pc,        \* position of each predict call
    pred_input,     \* its arguments
    pred_seen,      \* the bundle is_model_available() looked at
    pred_used,      \* the components predict took from the bundle
    pred_result,    \* what predict returned
    \* ---- _build_samples_for_team (SpecSamples) ----
    cfg_window,     \* settings.ML_WINDOW_SIZE
    matches,        \* the list get_recent_games_tactical returned
    samples,        \* the samples built from it
    built,          \* whether _build_samples_for_team has run on `matches`
    \* ---- analyze_match (SpecAnalyze) ----
    an_pc,          \* position of the analyze_match call
    an_recent,      \* recent_games_tactical
    an_profile,     \* opponent_advanced_stats
    an_ml,          \* ml_insights
    an_outcome,     \* what analyze_match ended with
    \* ---- _normalize_tactical_from_events (SpecNormalize) ----
    ev_rows,        \* events_df: how many rows of each kind it holds
    ev_fp,          \* the fingerprint returned, <<>> before the call
    \* ---- per-shot xG proxy (SpecShot) ----
    sh_in,          \* two shot positions
    sh_out,         \* their xg values, <<>> before the computation
    \* ---- get_recent_games_tactical (SpecRecent) ----
    rg_events,      \* the finished matches, each with its events payload
    rg_next,        \* the next match of the loop
    rg_out,         \* the list `out`
    rg_state,       \* "idle", "running" or "returned"
    \* ---- _aggregate_history_window (SpecAggregate) ----
    ag_history,     \* the window
    ag_out,         \* the aggregate returned, <<>> before the call
    \* ---- _calculate_confidence (SpecConfidence) ----
    cf_stats,       \* the profile passed
    cf_out,         \* ai_confidence for it and for its estimated twin
    \* ---- _collect_dataset (SpecCollect) ----
    cd_leagues,     \* what the feed will answer for each league and team
    cd_pos,         \* the league and team the loops stand at
    cd_rows,        \* teams whose samples are in x_rows, in order
    cd_state,       \* "idle", "running", "returned" or "raised"
    \* ---- risk score of predict (SpecRisk) ----
    rk_in,          \* prob_map, goals_for and goals_against of the estimators
    rk_out,         \* the predictions and recommendations returned
    \* ---- _blend_profiles (SpecBlend) ----
    bl_in,          \* historical, observed and sample_size
    bl_out,         \* the blended profile, <<>> before the call
    \* ---- _confidence_adjustment (SpecAdjust) ----
    ca_in,          \* base confidence, sample size and the two profiles
    ca_out,         \* the adjustment returned, <<>> before the call
    \* ---- SofaScoreService._get (SpecFetch) ----
    sf_answers,     \* what each base URL answers
    sf_pos,         \* the base URL the loop stands at
    sf_last_error,  \* last_error
    sf_state,       \* "idle", "running", "returned" or "raised"
    \* ---- _build_features_from_profile (SpecFeatures) ----
    ft_in,          \* recent_games_tactical and window_size
    ft_out,         \* the history the form features are taken from
    \* ---- recommendation engine rules (SpecEngine) ----
    pg_in,          \* opponent_stats
    pg_out          \* the bands the rules worked with, <<>> before the call

mlvars == <<enabled, model_bundle, model_file, last_error, train_locked,
            lock_waiters, train_pc, train_force, train_n, train_pre,
            train_new, train_result, clock, made, ever_loaded, pred_pc,
            pred_input, pred_seen, pred_used, pred_result>>
smvars == <<cfg_window, matches, samples, built>>
anvars == <<an_pc, an_recent, an_profile, an_ml, an_outcome>>
nzvars == <<ev_rows, ev_fp>>
shvars == <<sh_in, sh_out>>
rgvars == <<rg_events, rg_next, rg_out, rg_state>>
agvars == <<ag_history, ag_out>>
cfvars == <<cf_stats, cf_out>>
cdvars == <<cd_leagues, cd_pos, cd_rows, cd_state>>
pipevars == <<nzvars, shvars, rgvars, agvars, cfvars, cdvars>>
rkvars == <<rk_in, rk_out>>
blvars == <<bl_in, bl_out>>
cavars == <<ca_in, ca_out>>
sfvars == <<sf_answers, sf_pos, sf_last_error, sf_state>>
ftvars == <<ft_in, ft_out>>
pgvars == <<pg_in, pg_out>>
latevars == <<rkvars, blvars, cavars, sfvars, ftvars, pgvars>>
vars == <<mlvars, smvars, anvars, pipevars, latevars>>

Max(a, b) == IF a >= b THEN a ELSE b
Min(a, b) == IF a <= b THEN a ELSE b
Range(s) == {s[i] : i \in DOMAIN s}

(***************************************************************************)
(* Bounds of the model.                                                    *)
(***************************************************************************)
MaxRuns == 2        \* training runs that reach the fit in one behaviour
MaxMatches == 6     \* fingerprints in one team's list
MaxDay == 2         \* distinct match days
MaxRecent == 2      \* fingerprints analyze_match averages
MaxRows == 3        \* event rows of one match beside its prepared batch
MaxWindow == 3      \* fingerprints in one history window
MaxValue == 1       \* largest value of a fingerprint field
MaxAnalyzed == 8    \* largest matches_analyzed of a profile
MaxLeagues == 2     \* leagues of one dataset collection
MaxObservations == 4 \* manual observations of the current season
MaxBaseUrls == 3    \* base URLs of the SofaScore service
MaxSupplied == 4    \* fingerprints supplied to predict as recent_games_tactical
MaxGoals == 3       \* largest expected goals a regressor predicts
GridCells == 20     \* divisions of the 0..100 pitch axis the shots are drawn from
MaxEvents == 3      \* finished matches found for one team
RecentLimit == 2    \* the limit of get_recent_games_tactical
MaxTeams == 2       \* teams listed for one league

Tasks == {"t1", "t2"}
Readers == {"p1"}

(***************************************************************************)
(* Settings and module constants.                                          *)
(***************************************************************************)
FEATURE_NAMES ==
    << "possession_percent", "pass_accuracy", "passes_per_minute",
       "long_balls_attempted", "long_balls_completed", "total_shots",
       "shots_on_target", "shot_conversion_rate", "shots_inside_box",
       "shots_outside_box", "xg", "xg_per_shot", "key_passes",
       "progressive_passes", "passes_into_final_third",
       "passes_into_penalty_area", "crosses_attempted", "crosses_accurate",
       "cutbacks", "tackles_attempted", "tackles_won", "interceptions",
       "blocks", "clearances", "defensive_duels_won_percent", "ppda",
       "high_turnovers_won", "counter_press_recoveries",
       "defensive_line_height", "corners_taken", "corners_conceded",
       "form_points_per_game", "form_win_rate", "form_goals_for_avg",
       "form_goals_against_avg" >>

ML_MIN_SAMPLES == 120
ML_WINDOW_SIZE == 5
MinSamplesFloor == 30
WindowFloor == 3

\* self.min_samples = max(30, int(ML_MIN_SAMPLES or 120))
min_samples == Max(MinSamplesFloor, IF ML_MIN_SAMPLES = 0 THEN 120 ELSE ML_MIN_SAMPLES)

\* self.window_size = max(3, int(ML_WINDOW_SIZE or 5))
window_size == Max(WindowFloor, IF cfg_window = 0 THEN 5 ELSE cfg_window)

(***************************************************************************)
(* Bundles and the artifact store.                                         *)
(***************************************************************************)
None == <<>>
Some(x) == <<x>>

\* The dict train_model builds: every component comes from one training run.
Bundle(names, run) ==
    [feature_names |-> names, result_model |-> run, goals_for_model |-> run,
     goals_against_model |-> run, metadata |-> run]

\* A bundle persisted by an earlier build of the service whose feature list
\* had the same length in another order, or had no form features yet.
ReorderedNames ==
    <<FEATURE_NAMES[2], FEATURE_NAMES[1]>> \o SubSeq(FEATURE_NAMES, 3, Len(FEATURE_NAMES))
ShorterNames == SubSeq(FEATURE_NAMES, 1, 31)
StoredNames == {FEATURE_NAMES, ReorderedNames, ShorterNames}

FileAbsent == [state |-> "absent", content |-> None]
FileCorrupt == [state |-> "corrupt", content |-> None]
FileOf(b) == [state |-> "ok", content |-> Some(b)]

\* _load_model: what __init__ leaves in _model_bundle and _last_error.
LoadedBundle_keepsStale(file) ==
    IF file.state = "absent" THEN None
    ELSE IF file.state = "ok" THEN file.content
    ELSE Some(Bundle(FEATURE_NAMES, 0))
LoadedBundle(file) == IF file.state = "ok" THEN file.content ELSE None
LoadError(file) == IF file.state = "corrupt" THEN "Failed loading model" ELSE "None"

is_model_available == model_bundle # None

\* get_status()["model_available"] and ["model_version"]
get_status ==
    [ml_enabled |-> enabled,
     model_available |-> is_model_available,
     model_version |-> IF model_bundle = None THEN None
                       ELSE Some(model_bundle[1].metadata),
     last_error |-> last_error]

(***************************************************************************)
(* train_model.  The body between two awaits runs without interruption on  *)
(* the event loop; the steps below are finer than that, so every           *)
(* interleaving the loop (or a caller on another thread) can produce is    *)
(* among the behaviours.                                                   *)
(***************************************************************************)
SampleCounts == {100, 119, 120}

InTrainingSection == {"collecting", "saving", "installing"}

\* asyncio.Lock.acquire takes the lock at once only when it is free and
\* nobody is queued for it.
CanAcquire_unguarded == TRUE
CanAcquire == ~train_locked /\ lock_waiters = <<>>

\* n_samples < self.min_samples
TooFewSamples_floor(n) == n < MinSamplesFloor
TooFewSamples(n) == n < min_samples

\* self._model_bundle = bundle
InstallBundle_inplace(cur, new) ==
    IF cur = None THEN new
    ELSE Some([cur[1] EXCEPT !.result_model = new[1].result_model])
InstallBundle(cur, new) == new

Snapshot == [file |-> model_file, bundle |-> model_bundle]
NoSnapshot == [file |-> FileAbsent, bundle |-> None]

\* Leaving `async with self._train_lock` by return or by exception: the lock
\* is released and the call's arguments and locals are gone.
Return_keeps_lock(t, result) ==
    /\ train_pc' = [train_pc EXCEPT ![t] = "done"]
    /\ train_result' = [train_result EXCEPT ![t] = result]
    /\ train_force' = [train_force EXCEPT ![t] = FALSE]
    /\ train_new' = [train_new EXCEPT ![t] = None]
    /\ train_pre' = [train_pre EXCEPT ![t] = NoSnapshot]
    /\ UNCHANGED train_locked
Return(t, result) ==
    /\ train_pc' = [train_pc EXCEPT ![t] = "done"]
    /\ train_result' = [train_result EXCEPT ![t] = result]
    /\ train_force' = [train_force EXCEPT ![t] = FALSE]
    /\ train_new' = [train_new EXCEPT ![t] = None]
    /\ train_pre' = [train_pre EXCEPT ![t] = NoSnapshot]
    /\ train_locked' = FALSE

\* The first statements inside the lock, which run with its acquisition:
\* if self.is_model_available() and not force: return skipped; otherwise the
\* call goes on to `await self._collect_dataset(...)`.
Enter_always_trains(t, force) ==
    /\ train_pc' = [train_pc EXCEPT ![t] = "collecting"]
    /\ train_result' = [train_result EXCEPT ![t] = "none"]
    /\ train_force' = [train_force EXCEPT ![t] = force]
    /\ train_pre' = [train_pre EXCEPT ![t] = Snapshot]
    /\ train_locked' = TRUE
    /\ UNCHANGED train_new
Enter(t, force) ==
    IF is_model_available /\ ~force
    THEN Return(t, "skipped")
    ELSE /\ train_pc' = [train_pc EXCEPT ![t] = "collecting"]
         /\ train_result' = [train_result EXCEPT ![t] = "none"]
         /\ train_force' = [train_force EXCEPT ![t] = force]
         /\ train_pre' = [train_pre EXCEPT ![t] = Snapshot]
         /\ train_locked' = TRUE
         /\ UNCHANGED train_new

TrainCall(t, force) ==
    /\ train_pc[t] \in {"idle", "done"}
    /\ clock < MaxRuns
    /\ train_n' = [train_n EXCEPT ![t] = -1]
    /\ IF ~enabled
       THEN /\ train_pc' = [train_pc EXCEPT ![t] = "done"]
            /\ train_result' = [train_result EXCEPT ![t] = "disabled"]
            /\ UNCHANGED <<train_locked, lock_waiters, train_force, train_new,
                           train_pre>>
       ELSE IF CanAcquire
       THEN /\ Enter(t, force)
            /\ UNCHANGED lock_waiters
       ELSE /\ lock_waiters' = Append(lock_waiters, t)
            /\ train_pc' = [train_pc EXCEPT ![t] = "waiting"]
            /\ train_result' = [train_result EXCEPT ![t] = "none"]
            /\ train_force' = [train_force EXCEPT ![t] = force]
            /\ UNCHANGED <<train_locked, train_new, train_pre>>
    /\ UNCHANGED <<enabled, model_bundle, model_file, last_error, clock, made,
                   ever_loaded>>

\* release() wakes the first waiter, which takes the lock.
TrainWake(t) ==
    /\ train_pc[t] = "waiting"
    /\ ~train_locked
    /\ lock_waiters # <<>> /\ Head(lock_waiters) = t
    /\ lock_waiters' = Tail(lock_waiters)
    /\ Enter(t, train_force[t])
    /\ UNCHANGED <<enabled, model_bundle, model_file, last_error, train_n,
                   clock, made, ever_loaded>>

\* dataset = await self._collect_dataset(...) returns n samples; too few are
\* refused, otherwise _train_estimators fits and the bundle dict is built.
TrainCollected(t, n) ==
    /\ train_pc[t] = "collecting"
    /\ train_n' = [train_n EXCEPT ![t] = n]
    /\ IF TooFewSamples(n)
       THEN /\ last_error' = "Not enough samples"
            /\ Return(t, "refused")
            /\ UNCHANGED <<clock, made>>
       ELSE /\ clock' = clock + 1
            /\ train_new' = [train_new EXCEPT ![t] =
                                Some(Bundle(FEATURE_NAMES, clock + 1))]
            /\ made' = made \cup {Bundle(FEATURE_NAMES, clock + 1)}
            /\ train_pc' = [train_pc EXCEPT ![t] = "saving"]
            /\ UNCHANGED <<last_error, train_result, train_locked, train_force,
                           train_pre>>
    /\ UNCHANGED <<enabled, model_bundle, model_file, lock_waiters, ever_loaded>>

\* An exception out of _collect_dataset or _train_estimators leaves the
\* `async with` block and reaches the caller.
TrainRaises(t) ==
    /\ train_pc[t] = "collecting"
    /\ Return(t, "raised")
    /\ UNCHANGED <<enabled, model_bundle, model_file, last_error, lock_waiters,
                   train_n, clock, made, ever_loaded>>

\* joblib.dump(bundle, self.model_path) succeeds
TrainSave(t) ==
    /\ train_pc[t] = "saving"
    /\ model_file' = FileOf(train_new[t][1])
    /\ train_pc' = [train_pc EXCEPT ![t] = "installing"]
    /\ UNCHANGED <<enabled, model_bundle, last_error, train_locked, lock_waiters,
                   train_force, train_n, train_pre, train_new, train_result,
                   clock, made, ever_loaded>>

\* joblib.dump raises: before the target was opened for writing (the file is
\* untouched) or while writing into it (the file is left truncated).
TrainSaveFails(t, opened) ==
    /\ train_pc[t] = "saving"
    /\ model_file' = IF opened THEN FileCorrupt ELSE model_file
    /\ last_error' = "Failed saving model"
    /\ Return(t, "save_failed")
    /\ UNCHANGED <<enabled, model_bundle, lock_waiters, train_n, clock, made,
                   ever_loaded>>

\* self._model_bundle = bundle; self._last_error = None; return ok
TrainInstall(t) ==
    /\ train_pc[t] = "installing"
    /\ model_bundle' = InstallBundle(model_bundle, train_new[t])
    /\ last_error' = "None"
    /\ ever_loaded' = TRUE
    /\ Return(t, "ok")
    /\ UNCHANGED <<enabled, model_file, lock_waiters, train_n, clock, made>>

(***************************************************************************)
(* predict.                                                                *)
(***************************************************************************)
\* What _safe_get finds at a feature's path of opponent_stats.
ProfileKinds == {"well_formed", "null_fields", "text_fields", "not_a_dict"}
\* recent_games_tactical: None, or a list of observed / of estimated
\* fingerprints.
HistoryKinds == {"None", "observed", "estimated"}
PredictInputs ==
    {[profile |-> "well_formed", history |-> "None"],
     [profile |-> "well_formed", history |-> "observed"],
     [profile |-> "null_fields", history |-> "estimated"],
     [profile |-> "text_fields", history |-> "observed"],
     [profile |-> "not_a_dict", history |-> "None"]}

FormFeatures ==
    {"form_points_per_game", "form_win_rate", "form_goals_for_avg",
     "form_goals_against_avg"}

_safe_get(profile) ==
    CASE profile = "well_formed" -> "number"
      [] profile = "text_fields" -> "text"
      [] OTHER -> "None"

\* float(value), None when value is None or float() raises
_safe_float(value) == IF value = "number" THEN "float" ELSE "None"

\* _aggregate_history_window at this level: an estimated fingerprint holds
\* match_info alone, with result and score None.
AggregateKind(history, name) ==
    IF history = "observed" THEN "float"
    ELSE IF name \in {"form_points_per_game", "form_win_rate"} THEN "float"
    ELSE "None"

_build_features_from_profile(input) ==
    LET base == [i \in DOMAIN FEATURE_NAMES |->
                    IF FEATURE_NAMES[i] \in FormFeatures THEN "None"
                    ELSE _safe_float(_safe_get(input.profile))]
    IN  IF input.history = "None" THEN base
        ELSE [i \in DOMAIN FEATURE_NAMES |->
                 IF FEATURE_NAMES[i] \in FormFeatures \/ base[i] = "None"
                 THEN AggregateKind(input.history, FEATURE_NAMES[i])
                 ELSE base[i]]

\* float(features.get(name)) if features.get(name) is not None else np.nan
RowCell_unchecked(v) == IF v = "None" THEN "TypeError" ELSE "float"
RowCell(v) == IF v = "None" THEN "nan" ELSE "float"

FeatureRow(input) ==
    LET f == _build_features_from_profile(input)
    IN  [i \in DOMAIN FEATURE_NAMES |-> RowCell(f[i])]

\* The try block: the fitted pipelines reject a row whose width is not the
\* one they were fitted on, and may fail for reasons of their own.
Inference_uncaught(bundle, row, fails) ==
    IF Len(row) # Len(bundle.feature_names) \/ fails THEN "raised" ELSE "ok"
Inference(bundle, row, fails) ==
    IF Len(row) # Len(bundle.feature_names) \/ fails THEN "caught" ELSE "ok"

Disabled(reason) ==
    [enabled |-> FALSE, raised |-> FALSE, reason |-> reason, model_version |-> None]
Raised == [enabled |-> FALSE, raised |-> TRUE, reason |-> "", model_version |-> None]
Prediction(bundle) ==
    [enabled |-> TRUE, raised |-> FALSE, reason |-> "", model_version |-> Some(bundle.metadata)]
NoResult == [enabled |-> FALSE, raised |-> FALSE, reason |-> "pending", model_version |-> None]

\* if not self.enabled ...; if not self.is_model_available() ...
PredictCall(p, input) ==
    /\ pred_pc[p] \in {"idle", "done"}
    /\ pred_input' = [pred_input EXCEPT ![p] = input]
    /\ pred_seen' = [pred_seen EXCEPT ![p] = model_bundle]
    /\ pred_used' = [pred_used EXCEPT ![p] = None]
    /\ IF ~enabled
       THEN /\ pred_pc' = [pred_pc EXCEPT ![p] = "done"]
            /\ pred_result' = [pred_result EXCEPT ![p] = Disabled("ML disabled")]
       ELSE IF ~is_model_available
       THEN /\ pred_pc' = [pred_pc EXCEPT ![p] = "done"]
            /\ pred_result' = [pred_result EXCEPT ![p] = Disabled("Model not trained")]
       ELSE /\ pred_pc' = [pred_pc EXCEPT ![p] = "checked"]
            /\ pred_result' = [pred_result EXCEPT ![p] = NoResult]

\* row = np.array([...]); try: predict ... except: ...; return {...}
InferenceResult(bundle, input, fails) ==
    LET row == FeatureRow(input)
        out == Inference(bundle, row, fails)
    IN  IF \E i \in DOMAIN row : row[i] = "TypeError" THEN Raised
        ELSE IF out = "raised" THEN Raised
        ELSE IF out = "caught" THEN Disabled("ML inference failed")
        ELSE Prediction(bundle)

\* bundle = self._model_bundle or {} ... return {...}
PredictRun(p, fails) ==
    /\ pred_pc[p] = "checked"
    /\ pred_pc' = [pred_pc EXCEPT ![p] = "done"]
    /\ pred_used' = [pred_used EXCEPT ![p] = model_bundle]
    /\ UNCHANGED <<pred_input, pred_seen>>
    /\ IF model_bundle = None
       THEN pred_result' = [pred_result EXCEPT ![p] = Disabled("Invalid model bundle")]
       ELSE pred_result' = [pred_result EXCEPT ![p] =
                InferenceResult(model_bundle[1], pred_input[p], fails)]

\* predict called from synchronous code: no other coroutine runs between its
\* first check and its return.
predict(input, fails) ==
    IF ~enabled THEN Disabled("ML disabled")
    ELSE IF ~is_model_available THEN Disabled("Model not trained")
    ELSE InferenceResult(model_bundle[1], input, fails)

trainvars == <<train_locked, lock_waiters, train_pc, train_force, train_n,
               train_pre, train_new, train_result, clock,
               made, ever_loaded>>
predvars == <<pred_pc, pred_input, pred_seen, pred_used, pred_result>>
storevars == <<enabled, model_bundle, model_file, last_error>>

(***************************************************************************)
(* Spec: the service after __init__ (which runs _load_model), then any     *)
(* interleaving of train_model and predict calls.                          *)
(***************************************************************************)
StoredFiles ==
    {FileAbsent, FileCorrupt} \cup {FileOf(Bundle(names, 0)) : names \in StoredNames}

SamplesIdle ==
    /\ cfg_window = ML_WINDOW_SIZE
    /\ matches = <<>>
    /\ samples = <<>>
    /\ built = FALSE

AnalyzeIdle ==
    /\ an_pc = "idle"
    /\ an_recent = <<>>
    /\ an_profile = None
    /\ an_ml = NoResult
    /\ an_outcome = "none"

NormalizeIdle == ev_rows = <<>> /\ ev_fp = <<>>
ShotIdle == sh_in = <<>> /\ sh_out = <<>>
RecentIdle == rg_events = <<>> /\ rg_next = 0 /\ rg_out = <<>> /\ rg_state = "idle"
AggregateIdle == ag_history = <<>> /\ ag_out = <<>>
ConfidenceIdle == cf_stats = <<>> /\ cf_out = <<>>
CollectIdle == cd_leagues = <<>> /\ cd_pos = <<>> /\ cd_rows = <<>> /\ cd_state = "idle"
RiskIdle == rk_in = <<>> /\ rk_out = <<>>
BlendIdle == bl_in = <<>> /\ bl_out = <<>>
AdjustIdle == ca_in = <<>> /\ ca_out = <<>>
FetchIdle == sf_answers = <<>> /\ sf_pos = 0 /\ sf_last_error = <<>> /\ sf_state = "idle"
FeaturesIdle == ft_in = <<>> /\ ft_out = <<>>
EngineIdle == pg_in = <<>> /\ pg_out = <<>>
LateIdle ==
    /\ RiskIdle /\ BlendIdle /\ AdjustIdle
    /\ FetchIdle /\ FeaturesIdle /\ EngineIdle

PipelineIdle ==
    /\ NormalizeIdle /\ ShotIdle /\ RecentIdle
    /\ AggregateIdle /\ ConfidenceIdle /\ CollectIdle

ServiceInit ==
    /\ enabled \in BOOLEAN
    /\ model_file \in StoredFiles
    /\ model_bundle = LoadedBundle(model_file)
    /\ last_error = LoadError(model_file)
    /\ ever_loaded = (model_file.state = "ok")
    /\ made = Range(model_bundle)
    /\ train_locked = FALSE
    /\ lock_waiters = <<>>
    /\ train_pc = [t \in Tasks |-> "idle"]
    /\ train_force = [t \in Tasks |-> FALSE]
    /\ train_n = [t \in Tasks |-> -1]
    /\ train_pre = [t \in Tasks |-> NoSnapshot]
    /\ train_new = [t \in Tasks |-> None]
    /\ train_result = [t \in Tasks |-> "none"]
    /\ clock = 0
    /\ pred_pc = [p \in Readers |-> "idle"]
    /\ pred_input = [p \in Readers |-> [profile |-> "well_formed", history |-> "None"]]
    /\ pred_seen = [p \in Readers |-> None]
    /\ pred_used = [p \in Readers |-> None]
    /\ pred_result = [p \in Readers |-> NoResult]

Init == ServiceInit /\ SamplesIdle /\ AnalyzeIdle /\ PipelineIdle /\ LateIdle

TrainFrame == UNCHANGED <<predvars, smvars, anvars, pipevars, latevars>>
PredictFrame == UNCHANGED <<storevars, trainvars, smvars, anvars, pipevars, latevars>>

Next ==
    \/ \E t \in Tasks, force \in BOOLEAN : TrainCall(t, force) /\ TrainFrame
    \/ \E t \in Tasks : TrainWake(t) /\ TrainFrame
    \/ \E t \in Tasks, n \in SampleCounts : TrainCollected(t, n) /\ TrainFrame
    \/ \E t \in Tasks : TrainRaises(t) /\ TrainFrame
    \/ \E t \in Tasks : TrainSave(t) /\ TrainFrame
    \/ \E t \in Tasks, opened \in BOOLEAN : TrainSaveFails(t, opened) /\ TrainFrame
    \/ \E t \in Tasks : TrainInstall(t) /\ TrainFrame
    \/ \E p \in Readers, input \in PredictInputs : PredictCall(p, input) /\ PredictFrame
    \/ \E p \in Readers, fails \in BOOLEAN : PredictRun(p, fails) /\ PredictFrame

Spec == Init /\ [][Next]_vars


(***************************************************************************)
(* The per-shot xG proxy of _normalize_tactical_from_events, in fixed      *)
(* point: distances in hundredths, the argument of exp and its value in    *)
(* thousandths, xg in ten-thousandths.                                     *)
(***************************************************************************)
\* math.sqrt of n * 10^-4, in hundredths: the integer square root of n
RECURSIVE SqrtBetween(_, _, _)
SqrtBetween(n, lo, hi) ==
    IF lo = hi THEN lo
    ELSE LET mid == (lo + hi + 1) \div 2
         IN  IF mid * mid <= n THEN SqrtBetween(n, mid, hi)
             ELSE SqrtBetween(n, lo, mid - 1)

Sqrt100(n) == SqrtBetween(n * 10000, 0, 15000)

\* e^k in thousandths for k = -4 .. 11
EPow ==
    <<18, 50, 135, 368, 1000, 2718, 7389, 20086, 54598, 148413, 403429,
      1096633, 2980958, 8103084, 22026466, 59874142>>

\* e^(f/1000) in thousandths for 0 <= f < 1000, by its series
ExpFraction(f) ==
    LET f2 == (f * f) \div 1000
        f3 == (f2 * f) \div 1000
        f4 == (f3 * f) \div 1000
        f5 == (f4 * f) \div 1000
    IN  1000 + f + (f2 \div 2) + (f3 \div 6) + (f4 \div 24) + (f5 \div 120)

\* math.exp(t/1000) in thousandths, for -4000 <= t < 12000
Exp1000(t) ==
    LET k == t \div 1000
        f == t % 1000
        whole == EPow[k + 5]
    IN  IF whole >= 500000 THEN (whole \div 1000) * ExpFraction(f)
        ELSE (whole * ExpFraction(f)) \div 1000

\* d = min(d1, d2), the distances to the two goal centres (100, 50), (0, 50)
NearerGoal(x, y) ==
    Min(Sqrt100((100 - x) * (100 - x) + (50 - y) * (50 - y)),
        Sqrt100(x * x + (50 - y) * (50 - y)))

\* xg = 1.0 / (1.0 + math.exp((d - 18.0) / 4.5)); max(0.01, min(0.85, xg))
ShotXg_unclamped(x, y) ==
    LET d == NearerGoal(x, y)
        t == ((d - 1800) * 1000) \div 450
    IN  10000000 \div (1000 + Exp1000(t))
ShotXg(x, y) ==
    LET d == NearerGoal(x, y)
        t == ((d - 1800) * 1000) \div 450
        xg == 10000000 \div (1000 + Exp1000(t))
    IN  Max(100, Min(8500, xg))

(***************************************************************************)
(* Claims about the service (checked under Spec).                          *)
(***************************************************************************)
Inside == {t \in Tasks : train_pc[t] \in InTrainingSection}
Failed == {"refused", "raised", "save_failed"}
Returns(t) == train_pc[t] # "done" /\ train_pc'[t] = "done"

\* C1: at most one train_model call is inside the training section (dataset
\* collection, fit, bundle write, bundle swap) at a time; a call that arrives
\* while another is in flight is queued behind the lock, and the lock is held
\* for as long as a call is inside.
C1_OneTrainingAtATime ==
    /\ Cardinality(Inside) <= 1
    /\ Inside # {} => train_locked
    /\ \A t \in Tasks :
          train_pc[t] = "waiting" <=> t \in Range(lock_waiters)

\* A second call is queued while the first is writing the bundle file.
C1_Witness ==
    \E t, u \in Tasks : train_pc[t] = "saving" /\ train_pc[u] = "waiting"

\* C2 (as claimed): whenever a train_model call fails, the previously
\* persisted bundle file and the in-memory bundle are what they were when the
\* call began.
C2_FailureKeepsBundle ==
    [][\A t \in Tasks :
          (Returns(t) /\ train_result'[t] \in Failed
             /\ train_pre[t].file.state = "ok")
          => /\ model_file' = train_pre[t].file
             /\ model_bundle' = train_pre[t].bundle]_vars

\* C3: the bundle a predict call works on is one complete bundle, as loaded
\* or as built by one training run: all its components are of the same run.
C3_PredictSeesCompleteBundle ==
    \A p \in Readers :
        pred_used[p] # None
        => /\ pred_used[p][1] \in made
           /\ pred_used[p][1].result_model = pred_used[p][1].metadata
           /\ pred_used[p][1].goals_for_model = pred_used[p][1].metadata
           /\ pred_used[p][1].goals_against_model = pred_used[p][1].metadata
           /\ pred_result[p].enabled
              => pred_result[p].model_version = Some(pred_used[p][1].metadata)

\* A predict call that checked availability under the old bundle and read
\* the one a retrain installed meanwhile.
C3_Witness ==
    \E p \in Readers :
        /\ pred_pc[p] = "done" /\ pred_result[p].enabled
        /\ pred_seen[p] # None /\ pred_used[p] # pred_seen[p]

\* C6: when the dataset holds fewer samples than the configured minimum,
\* train_model returns ok=false with the reason and nothing is fitted,
\* written to the model file or installed in memory.
C6_RefusedBelowMinimum ==
    [][\A t \in Tasks :
          (train_pc[t] = "collecting" /\ train_n'[t] >= 0
             /\ train_n'[t] < min_samples)
          => /\ Returns(t) /\ train_result'[t] = "refused"
             /\ last_error' = "Not enough samples"
             /\ UNCHANGED <<model_file, model_bundle, clock, made>>]_vars

\* 100 samples against the minimum of 120.
C6_Witness ==
    \E t \in Tasks :
        /\ train_n[t] = 100 /\ min_samples = 120
        /\ train_pc[t] = "done" /\ train_result[t] = "refused"

\* C7: predict never raises: every call returns, and a call that does not
\* return a prediction returns enabled=false with a reason.
C7_PredictNeverRaises ==
    \A p \in Readers :
        /\ ~pred_result[p].raised
        /\ pred_pc[p] = "done"
           => pred_result[p].enabled \/ pred_result[p].reason # ""

\* The models failed on a row built from a malformed profile.
C7_Witness ==
    \E p \in Readers :
        /\ pred_pc[p] = "done"
        /\ pred_input[p].profile \in {"text_fields", "not_a_dict"}
        /\ pred_result[p] = Disabled("ML inference failed")

\* C8: while no bundle has been loaded (no model file, a failed load, every
\* training attempt refused or failed), no bundle is in memory, get_status
\* reports model_available = false and every predict returns enabled=false.
C8_NoBundleNoPrediction ==
    ~ever_loaded
    => /\ model_bundle = None
       /\ ~get_status.model_available
       /\ \A p \in Readers : ~pred_result[p].enabled

\* A well-formed profile is refused after a failed save left no bundle.
C8_Witness ==
    /\ ~ever_loaded
    /\ \E t \in Tasks : train_result[t] = "save_failed"
    /\ \E p \in Readers :
          /\ pred_pc[p] = "done"
          /\ pred_input[p].profile = "well_formed"
          /\ pred_result[p] = Disabled("Model not trained")

\* C9 (as claimed): predict returns a prediction only from a bundle whose
\* feature_names are the feature list the row was built with.
C9_MismatchBlocksInference ==
    \A p \in Readers :
        (pred_pc[p] = "done" /\ pred_result[p].enabled)
        => pred_used[p][1].feature_names = FEATURE_NAMES

(***************************************************************************)
(* _build_samples_for_team over the lists get_recent_games_tactical can    *)
(* return.  The normalizer emits two kinds of fingerprint: an observed one *)
(* (result W/D/L, score "a-b", date in ISO format) and an estimated one    *)
(* (match_info only: result and score None, date the raw startTimestamp    *)
(* integer, which datetime.fromisoformat does not parse).  `day` is the    *)
(* day the match was played, whichever way the date is written.            *)
(***************************************************************************)
WindowSettings == {3, ML_WINDOW_SIZE}
Days == 1..MaxDay

Observed(day) ==
    [estimated |-> FALSE, result |-> "W", score |-> "a-b",
     date |-> [format |-> "iso", day |-> day]]
Estimated(day) ==
    [estimated |-> TRUE, result |-> "None", score |-> "None",
     date |-> [format |-> "epoch", day |-> day]]
Fingerprints == {Observed(d) : d \in Days} \cup {Estimated(d) : d \in Days}

\* _sort_key: the timestamp of an ISO date, 0.0 for a missing or unparsable one
_sort_key(match) ==
    IF match.date.format = "iso" THEN match.date.day ELSE 0

\* _parse_score: both goals, or (None, None)
_parse_score(score) == IF score = "a-b" THEN "parsed" ELSE "None"

\* _target_from_match returns (None, None, None) for a result outside
\* {W, D, L} or a score that does not parse.
_target_from_match(match) ==
    IF match.result \notin {"W", "D", "L"} THEN "None"
    ELSE IF _parse_score(match.score) = "None" THEN "None"
    ELSE match.result

\* sorted(matches, key=_sort_key), as the list of positions in `matches`:
\* a stable sort, built by inserting each position behind the keys <= its own.
InsertByKey(ms, ordered, pos) ==
    LET after == {i \in 1..Len(ordered) : _sort_key(ms[ordered[i]]) > _sort_key(ms[pos])}
        at == IF after = {} THEN Len(ordered) + 1
              ELSE CHOOSE i \in after : \A j \in after : i <= j
    IN  SubSeq(ordered, 1, at - 1) \o <<pos>> \o SubSeq(ordered, at, Len(ordered))

RECURSIVE SortPrefix(_, _)
SortPrefix(ms, n) ==
    IF n = 0 THEN <<>> ELSE InsertByKey(ms, SortPrefix(ms, n - 1), n)

_sort_matches_chronological(ms) == SortPrefix(ms, Len(ms))

\* history = ordered[idx - window_size : idx], for the target ordered[idx]
\* (idx counts from 1 here).
HistoryWindow(ordered, idx) == SubSeq(ordered, idx - window_size, idx - 1)

\* range(self.window_size, len(ordered)): the first target position
FirstTarget_late == window_size + 2
FirstTarget == window_size + 1

_build_samples_for_team(ms) ==
    LET ordered == _sort_matches_chronological(ms)
        targets == IF Len(ordered) <= window_size THEN {}
                   ELSE {idx \in FirstTarget..Len(ordered) :
                            _target_from_match(ms[ordered[idx]]) # "None"}
        RECURSIVE Rows(_)
        Rows(idx) ==
            IF idx > Len(ordered) THEN <<>>
            ELSE (IF idx \in targets
                  THEN <<[history |-> HistoryWindow(ordered, idx),
                          target |-> ordered[idx],
                          y_result |-> _target_from_match(ms[ordered[idx]])]>>
                  ELSE <<>>) \o Rows(idx + 1)
    IN  Rows(1)

\* One more fingerprint in the list the feed returns for the team.
ReceiveMatch(fp) ==
    /\ ~built
    /\ Len(matches) < MaxMatches
    /\ matches' = Append(matches, fp)
    /\ UNCHANGED <<cfg_window, samples, built>>

\* team_x, ... = self._build_samples_for_team(recent or [])
BuildSamples ==
    /\ ~built
    /\ samples' = _build_samples_for_team(matches)
    /\ built' = TRUE
    /\ UNCHANGED <<cfg_window, matches>>

ServiceIdle ==
    /\ enabled = TRUE
    /\ model_file = FileAbsent
    /\ model_bundle = None
    /\ last_error = "None"
    /\ ever_loaded = FALSE
    /\ made = {}
    /\ train_locked = FALSE
    /\ lock_waiters = <<>>
    /\ train_pc = [t \in Tasks |-> "idle"]
    /\ train_force = [t \in Tasks |-> FALSE]
    /\ train_n = [t \in Tasks |-> -1]
    /\ train_pre = [t \in Tasks |-> NoSnapshot]
    /\ train_new = [t \in Tasks |-> None]
    /\ train_result = [t \in Tasks |-> "none"]
    /\ clock = 0
    /\ pred_pc = [p \in Readers |-> "idle"]
    /\ pred_input = [p \in Readers |-> [profile |-> "well_formed", history |-> "None"]]
    /\ pred_seen = [p \in Readers |-> None]
    /\ pred_used = [p \in Readers |-> None]
    /\ pred_result = [p \in Readers |-> NoResult]

InitSamples ==
    /\ cfg_window \in WindowSettings
    /\ matches = <<>>
    /\ samples = <<>>
    /\ built = FALSE
    /\ ServiceIdle
    /\ AnalyzeIdle
    /\ PipelineIdle /\ LateIdle

NextSamples ==
    \/ \E fp \in Fingerprints : ReceiveMatch(fp) /\ UNCHANGED <<mlvars, anvars, pipevars, latevars>>
    \/ BuildSamples /\ UNCHANGED <<mlvars, anvars, pipevars, latevars>>

SpecSamples == InitSamples /\ [][NextSamples]_vars

(***************************************************************************)
(* Claims about the sample builder (checked under SpecSamples).            *)
(***************************************************************************)
\* The order _sort_key gives two positions of `matches`: an unparsable date
\* counts as the earliest, and equal keys keep the order of the list.
Precedes(i, j) ==
    \/ _sort_key(matches[i]) < _sort_key(matches[j])
    \/ _sort_key(matches[i]) = _sort_key(matches[j]) /\ i < j

Positions == 1..Len(matches)

\* The day the match at position i was played.
MatchDay(i) == matches[i].date.day

\* C4: the history window of every sample holds window_size fingerprints,
\* never the target itself and never a match played later than the target;
\* six fingerprints in date order with window 5 give the one sample that has
\* fingerprints 1..5 as history and fingerprint 6 as target.
C4_WindowPrecedesTarget ==
    built =>
      /\ \A k \in DOMAIN samples :
           LET h == Range(samples[k].history)
               t == samples[k].target
           IN  /\ Len(samples[k].history) = window_size
               /\ t \notin h
               /\ \A i \in h : MatchDay(i) <= MatchDay(t)
      /\ ( /\ Len(matches) = 6 /\ window_size = 5
           /\ \A i \in Positions : ~matches[i].estimated
           /\ \A i, j \in Positions : i < j => MatchDay(i) <= MatchDay(j) )
         => samples = <<[history |-> <<1, 2, 3, 4, 5>>, target |-> 6, y_result |-> "W"]>>

\* What the builder does keep: every window is the window_size fingerprints
\* that stand immediately before the target in the order of _sort_key.
WindowFollowsSortKey ==
    built =>
      \A k \in DOMAIN samples :
         LET h == Range(samples[k].history)
             t == samples[k].target
         IN  /\ Len(samples[k].history) = window_size
             /\ Cardinality(h) = window_size
             /\ t \notin h
             /\ \A i \in h : Precedes(i, t)
             /\ \A m \in Positions \ (h \cup {t}) :
                   Precedes(m, t) => \A i \in h : Precedes(m, i)
             /\ \A a, b \in DOMAIN samples[k].history :
                   a < b => Precedes(samples[k].history[a], samples[k].history[b])

Rank(i) == Cardinality({j \in Positions : Precedes(j, i)}) + 1

EstimatedFingerprint ==
    [estimated |-> TRUE, team_shape |-> "absent", transitions |-> "absent"]
ObservedFingerprint(line) ==
    [estimated |-> FALSE, team_shape |-> line, transitions |-> "None"]
RecentFingerprints ==
    {EstimatedFingerprint} \cup
    {ObservedFingerprint(line) : line \in {"line_None", "line_number"}}

RECURSIVE ListsUpTo(_, _)
ListsUpTo(S, n) ==
    IF n = 0 THEN {<<>>}
    ELSE LET shorter == ListsUpTo(S, n - 1)
         IN  shorter \cup {Append(l, x) : l \in shorter, x \in S}

RecentLists == ListsUpTo(RecentFingerprints, MaxRecent)

\* opponent_advanced_stats = {} when the feed has no match of the opponent
EmptyProfile ==
    [estimated |-> FALSE, matches_analyzed |-> 0, means |-> "absent",
     team_shape |-> "absent", transitions |-> "absent"]

\* _profile_from_recent_games: means over the list, and the groups
\* pressing_structure, team_shape, transitions, context, match_info copied
\* from the first fingerprint when it has the key.
_profile_from_recent_games(recent) ==
    IF recent = <<>> THEN EmptyProfile
    ELSE LET latest == recent[1]
         IN  [estimated |-> \E i \in DOMAIN recent : recent[i].estimated,
              matches_analyzed |-> Len(recent),
              means |-> IF \E i \in DOMAIN recent : ~recent[i].estimated
                        THEN "number" ELSE "None",
              team_shape |-> latest.team_shape,
              transitions |-> latest.transitions]

\* The arguments predict receives, in the terms of PredictInputs.
PredictInputOf(profile, recent) ==
    [profile |-> IF profile.means = "number" THEN "well_formed" ELSE "null_fields",
     history |-> IF recent = <<>> THEN "None"
                 ELSE IF \E i \in DOMAIN recent : ~recent[i].estimated THEN "observed"
                 ELSE "estimated"]

\* def generate_recommendations(self, opponent_stats, gil_stats)
GenerateParameters == {"opponent_stats", "gil_stats"}
\* generate_recommendations(opponent_advanced_stats, None, ml_insights=ml_insights)
CallKeywords == {"ml_insights"}

\* shape.get('defensive_line_height', 40) > 48: the default applies to a
\* missing key only, and None > 48 raises.
_recommend_player_roles(stats) ==
    IF stats.team_shape = "line_None" THEN "TypeError" ELSE "roles"

\* transitions = stats.get('transitions', {}); transitions.get(...)
_identify_target_zones(stats) ==
    IF stats.transitions = "None" THEN "AttributeError" ELSE "zones"

\* The body of generate_recommendations: the first exception of the
\* recommenders, in the order of the dict literal, or the Recommendation.
Recommendations(stats) ==
    IF _recommend_player_roles(stats) = "TypeError" THEN "TypeError"
    ELSE IF _identify_target_zones(stats) = "AttributeError" THEN "AttributeError"
    ELSE "recommendation"

\* The call itself: an unexpected keyword argument is a TypeError before the
\* body runs.
generate_recommendations(stats, keywords) ==
    IF ~(keywords \subseteq GenerateParameters) THEN "TypeError"
    ELSE Recommendations(stats)

\* recent_games_tactical = get_recent_games_tactical(...);
\* opponent_advanced_stats = self._profile_from_recent_games(...)
AnalyzeProfile(recent) ==
    /\ an_pc = "idle"
    /\ an_recent' = recent
    /\ an_profile' = Some(_profile_from_recent_games(recent))
    /\ an_pc' = "profiled"
    /\ UNCHANGED <<an_ml, an_outcome>>

\* ml_insights = self.ml_service.predict(...)
AnalyzePredict(fails) ==
    /\ an_pc = "profiled"
    /\ an_ml' = predict(PredictInputOf(an_profile[1], an_recent), fails)
    /\ an_pc' = "predicted"
    /\ UNCHANGED <<an_recent, an_profile, an_outcome>>

\* ai_recommendations = self.ai_engine.generate_recommendations(...);
\* except Exception: raise
AnalyzeRecommend ==
    /\ an_pc = "predicted"
    /\ an_outcome' = generate_recommendations(an_profile[1], CallKeywords)
    /\ an_pc' = "done"
    /\ UNCHANGED <<an_recent, an_profile, an_ml>>

InitAnalyze == ServiceInit /\ SamplesIdle /\ AnalyzeIdle /\ PipelineIdle /\ LateIdle

NextAnalyze ==
    \/ \E recent \in RecentLists : AnalyzeProfile(recent) /\ UNCHANGED <<mlvars, smvars, pipevars, latevars>>
    \/ \E fails \in BOOLEAN : AnalyzePredict(fails) /\ UNCHANGED <<mlvars, smvars, pipevars, latevars>>
    \/ AnalyzeRecommend /\ UNCHANGED <<mlvars, smvars, pipevars, latevars>>

SpecAnalyze == InitAnalyze /\ [][NextAnalyze]_vars

\* C10: whatever profile the normalizer pipeline produced and whatever
\* predict returned, analyze_match ends the recommendation step with a
\* Recommendation from generate_recommendations, not with an exception.
C10_RecommendationAlwaysObtained ==
    an_pc = "done" => an_outcome = "recommendation"

(***************************************************************************)
(* _normalize_tactical_from_events over the event rows of one match.       *)
(* Numbers are kept in the unit each metric is rounded to: 0.1 for         *)
(* percentages and line height, 0.01 for xG, PPDA and passes per minute,   *)
(* 0.001 for xG per shot.                                                  *)
(***************************************************************************)
\* The rows events_df can hold: the team's own (team_rows) and the
\* opponent's (opp_rows), with x and y None (<<>>) or a number.
RowKinds ==
    {"own_pass_ok", "own_pass_bad", "own_shot_no_xy", "own_shot_near",
     "own_shot_far", "own_tackle_high", "own_tackle_low", "own_interception",
     "opp_pass_ok", "opp_pass_bad"}

Row(kind) ==
    CASE kind = "own_pass_ok" ->
           [team |-> "own", type |-> "pass", outcome |-> "successful", x |-> None, y |-> None]
      [] kind = "own_pass_bad" ->
           [team |-> "own", type |-> "pass", outcome |-> "unsuccessful", x |-> None, y |-> None]
      [] kind = "own_shot_no_xy" ->
           [team |-> "own", type |-> "shot", outcome |-> "unsuccessful", x |-> None, y |-> None]
      [] kind = "own_shot_near" ->
           [team |-> "own", type |-> "shot", outcome |-> "unsuccessful", x |-> Some(90), y |-> Some(50)]
      [] kind = "own_shot_far" ->
           [team |-> "own", type |-> "shot", outcome |-> "unsuccessful", x |-> Some(60), y |-> Some(50)]
      [] kind = "own_tackle_high" ->
           [team |-> "own", type |-> "tackle", outcome |-> "successful", x |-> Some(70), y |-> Some(50)]
      [] kind = "own_tackle_low" ->
           [team |-> "own", type |-> "tackle", outcome |-> "unsuccessful", x |-> Some(30), y |-> Some(50)]
      [] kind = "own_interception" ->
           [team |-> "own", type |-> "interception", outcome |-> "successful", x |-> None, y |-> None]
      [] kind = "opp_pass_ok" ->
           [team |-> "opp", type |-> "pass", outcome |-> "successful", x |-> None, y |-> None]
      [] kind = "opp_pass_bad" ->
           [team |-> "opp", type |-> "pass", outcome |-> "unsuccessful", x |-> None, y |-> None]

\* A prepared batch of rows: none, or 20 passes of the team, 18 successful.
NoRows == [k \in RowKinds |-> 0]
TwentyPasses == [NoRows EXCEPT !["own_pass_ok"] = 18, !["own_pass_bad"] = 2]
RowBatches == {NoRows, TwentyPasses}

\* How many rows of each kind events_df holds.
RowCount(rows, kind) == rows.batch[kind] + rows.extra[kind]

RECURSIVE SumOver(_, _)
SumOver(S, weight) ==
    IF S = {} THEN 0
    ELSE LET k == CHOOSE k \in S : TRUE
         IN  weight[k] + SumOver(S \ {k}, weight)

\* len([r for r in rows if r is of a kind in S])
Len_(rows, S) == SumOver(S, [k \in S |-> RowCount(rows, k)])

\* round(n / d, digits) with n already scaled to the digits kept
Round(n, d) == (2 * n + d) \div (2 * d)

team_rows == {k \in RowKinds : Row(k).team = "own"}
opp_rows == {k \in RowKinds : Row(k).team # "own"}
pass_rows == {k \in team_rows : Row(k).type = "pass"}
succ_pass_rows == {k \in pass_rows : Row(k).outcome = "successful"}
shot_rows == {k \in team_rows : Row(k).type = "shot"}
\* the shots with sx is not None and sy is not None: those in xg_values
xg_rows == {k \in shot_rows : Row(k).x # None /\ Row(k).y # None}
tackles == {k \in team_rows : Row(k).type = "tackle"}
tackles_won == {k \in tackles : Row(k).outcome = "successful"}
interceptions == {k \in team_rows : Row(k).type = "interception"}
opp_pass_rows_completed == {k \in opp_rows : Row(k).type = "pass" /\ Row(k).outcome = "successful"}
opp_pass_rows == {k \in opp_rows : Row(k).type = "pass"}
high_actions == {k \in team_rows : Row(k).type \in {"tackle", "interception", "foul"}}
turnover_recoveries ==
    {k \in team_rows : Row(k).type \in {"interception", "tackle", "ball recovery"}}
located_rows == {k \in team_rows : Row(k).x # None}

\* high_zone_count: max(right, left), rows without x skipped
high_zone_count(rows, rset) ==
    Max(Len_(rows, {k \in rset : Row(k).x # None /\ Row(k).x[1] >= 60}),
        Len_(rows, {k \in rset : Row(k).x # None /\ Row(k).x[1] <= 40}))

\* sum(xg_values), in ten-thousandths
XgSum(rows) ==
    SumOver(xg_rows, [k \in xg_rows |->
                         RowCount(rows, k) * ShotXg(Row(k).x[1], Row(k).y[1])])

\* float(len(v)) if v else None
CountOrNone(n) == IF n > 0 THEN Some(n) ELSE None

Metrics ==
    {"pass_accuracy", "passes_per_minute", "total_shots", "xG", "xG_per_shot",
     "tackles_attempted", "tackles_won", "tackle_success_rate", "interceptions",
     "PPDA", "high_turnovers_won", "possession_percent", "defensive_line_height"}

EstimatedMatch == [estimated |-> TRUE, metrics |-> [m \in Metrics |-> None]]

\* xg_total = round(sum(xg_values), 2) if xg_values else None
XgTotal_mean(rows) ==
    IF Len_(rows, xg_rows) > 0
    THEN Some(Round(XgSum(rows), 100 * Len_(rows, xg_rows))) ELSE None
XgTotal(rows) ==
    IF Len_(rows, xg_rows) > 0 THEN Some(Round(XgSum(rows), 100)) ELSE None

\* xg_per_shot = round(sum(xg_values) / len(shot_rows), 3) if shot_rows else None
XgPerShot(rows) ==
    IF Len_(rows, shot_rows) > 0
    THEN Some(Round(XgSum(rows), 10 * Len_(rows, shot_rows))) ELSE None

\* ppda = round(opp_passes_n / max(1, high_actions_n), 2) if opp_passes_n else None
Ppda(rows) ==
    LET opp_passes_n == Len_(rows, opp_pass_rows)
        high_actions_n == high_zone_count(rows, high_actions)
    IN  IF opp_passes_n > 0
        THEN Some(Round(opp_passes_n * 100, Max(1, high_actions_n))) ELSE None

_normalize_tactical_from_events(rows) ==
    LET total_passes == Len_(rows, pass_rows)
        accurate_passes == Len_(rows, succ_pass_rows)
        shots == Len_(rows, shot_rows)
        total_team_actions == Len_(rows, team_rows)
        total_opp_actions == Len_(rows, opp_rows)
        xs == Len_(rows, located_rows)
        sum_x == SumOver(located_rows,
                         [k \in located_rows |-> RowCount(rows, k) * Row(k).x[1]])
    IN  IF Len_(rows, RowKinds) = 0 THEN EstimatedMatch
        ELSE [estimated |-> FALSE,
              metrics |->
                [m \in Metrics |->
                   CASE m = "pass_accuracy" ->
                          IF total_passes > 0
                          THEN Some(Round(accurate_passes * 1000, total_passes)) ELSE None
                     [] m = "passes_per_minute" ->
                          IF total_passes > 0 THEN Some(Round(total_passes * 100, 90)) ELSE None
                     [] m = "total_shots" -> CountOrNone(shots)
                     [] m = "xG" -> XgTotal(rows)
                     [] m = "xG_per_shot" -> XgPerShot(rows)
                     [] m = "tackles_attempted" -> CountOrNone(Len_(rows, tackles))
                     [] m = "tackles_won" -> CountOrNone(Len_(rows, tackles_won))
                     [] m = "tackle_success_rate" ->
                          IF Len_(rows, tackles) > 0
                          THEN Some(Round(Len_(rows, tackles_won) * 1000, Len_(rows, tackles)))
                          ELSE None
                     [] m = "interceptions" -> CountOrNone(Len_(rows, interceptions))
                     [] m = "PPDA" -> Ppda(rows)
                     [] m = "high_turnovers_won" ->
                          CountOrNone(high_zone_count(rows, turnover_recoveries))
                     [] m = "possession_percent" ->
                          IF total_team_actions > 0 /\ total_opp_actions > 0
                          THEN Some(Round(total_team_actions * 1000,
                                          total_team_actions + total_opp_actions))
                          ELSE None
                     [] m = "defensive_line_height" ->
                          IF xs > 0 THEN Some(Round(sum_x * 10, xs)) ELSE None]]

\* One more row in the events of the match.
AddRow(kind) ==
    /\ ev_fp = None
    /\ Len_([batch |-> NoRows, extra |-> ev_rows.extra], RowKinds) < MaxRows
    /\ ev_rows' = [ev_rows EXCEPT !.extra[kind] = @ + 1]
    /\ UNCHANGED ev_fp

\* self._normalize_tactical_from_events(event=ev, ..., events_df=events_df)
Normalize ==
    /\ ev_fp = None
    /\ ev_fp' = Some(_normalize_tactical_from_events(ev_rows))
    /\ UNCHANGED ev_rows

ServiceAtRest == ServiceIdle /\ SamplesIdle /\ AnalyzeIdle

InitNormalize ==
    /\ ev_rows \in [batch : RowBatches, extra : {NoRows}]
    /\ ev_fp = None
    /\ ServiceAtRest /\ LateIdle
    /\ ShotIdle /\ RecentIdle /\ AggregateIdle /\ ConfidenceIdle /\ CollectIdle

NextNormalize ==
    \/ \E kind \in RowKinds : AddRow(kind) /\ UNCHANGED <<mlvars, smvars, anvars, latevars, shvars, rgvars, agvars, cfvars, cdvars>>
    \/ Normalize /\ UNCHANGED <<mlvars, smvars, anvars, latevars, shvars, rgvars, agvars, cfvars, cdvars>>

SpecNormalize == InitNormalize /\ [][NextNormalize]_vars

(***************************************************************************)
(* Claims about the normalizer (checked under SpecNormalize).              *)
(***************************************************************************)
\* The number of events a metric is computed from.
Contributing(m) ==
    CASE m \in {"pass_accuracy", "passes_per_minute"} -> Len_(ev_rows, pass_rows)
      [] m = "total_shots" -> Len_(ev_rows, shot_rows)
      [] m \in {"xG", "xG_per_shot"} -> Len_(ev_rows, xg_rows)
      [] m \in {"tackles_attempted", "tackle_success_rate"} -> Len_(ev_rows, tackles)
      [] m = "tackles_won" -> Len_(ev_rows, tackles_won)
      [] m = "interceptions" -> Len_(ev_rows, interceptions)
      [] m = "PPDA" -> Len_(ev_rows, opp_pass_rows)
      [] m = "high_turnovers_won" ->
           Len_(ev_rows, {k \in turnover_recoveries : Row(k).x # None})
      [] m = "possession_percent" ->
           Min(Len_(ev_rows, team_rows), Len_(ev_rows, opp_rows))
      [] m = "defensive_line_height" -> Len_(ev_rows, located_rows)

\* C11: a metric of the returned fingerprint is null whenever no event
\* contributes to it; in particular xG_per_shot is null, not 0, when no shot
\* has coordinates.
C11_NoMetricWithoutEvents ==
    ev_fp # None =>
      \A m \in Metrics : Contributing(m) = 0 => ev_fp[1].metrics[m] = None

\* The opponent's passes of any outcome, its completed passes, and the
\* team's tackles, interceptions and fouls in each end zone.
OppPassesAll == Len_(ev_rows, {k \in RowKinds : Row(k).team = "opp" /\ Row(k).type = "pass"})
OppPassesCompleted ==
    Len_(ev_rows, {k \in RowKinds : /\ Row(k).team = "opp" /\ Row(k).type = "pass"
                                    /\ Row(k).outcome = "successful"})
DefensiveKinds ==
    {k \in RowKinds : /\ Row(k).team = "own"
                      /\ Row(k).type \in {"tackle", "interception", "foul"}
                      /\ Row(k).x # None}
ZoneRight == Len_(ev_rows, {k \in DefensiveKinds : Row(k).x[1] >= 60})
ZoneLeft == Len_(ev_rows, {k \in DefensiveKinds : Row(k).x[1] <= 40})
LargerZone == IF ZoneRight >= ZoneLeft THEN ZoneRight ELSE ZoneLeft
Observed_(fp) == fp # None /\ ~fp[1].estimated

\* C18 as stated: the PPDA of a fingerprint is the opponent's completed
\* passes divided by max(1, D), D the larger of the two end-zone counts of
\* the team's tackles, interceptions and fouls; unsuccessful opponent passes
\* do not count.
C18_PpdaOverCompletedPasses ==
    Observed_(ev_fp) /\ ev_fp[1].metrics["PPDA"] # None =>
      ev_fp[1].metrics["PPDA"]
        = Some(Round(OppPassesCompleted * 100, IF LargerZone >= 1 THEN LargerZone ELSE 1))

\* C18 amended: the PPDA is the opponent's passes of any outcome divided by
\* max(1, D), rounded to hundredths, and null when the opponent has no pass.
C18_PpdaOverAllPasses ==
    Observed_(ev_fp) =>
      ev_fp[1].metrics["PPDA"]
        = IF OppPassesAll = 0 THEN None
          ELSE Some(Round(OppPassesAll * 100, IF LargerZone >= 1 THEN LargerZone ELSE 1))

\* A completed and an unsuccessful opponent pass against one tackle in the
\* right end zone: PPDA 2.00.
C18_Witness ==
    /\ Observed_(ev_fp)
    /\ OppPassesCompleted = 1 /\ OppPassesAll = 2
    /\ ZoneRight = 1 /\ ZoneLeft = 0
    /\ ev_fp[1].metrics["PPDA"] = Some(200)

\* The match of the scenario: 20 passes of the team, 18 successful, and two
\* shots, one 10 and one 40 from the goal centre.
Scenario19 ==
    /\ Observed_(ev_fp)
    /\ Len_(ev_rows, pass_rows) = 20
    /\ Len_(ev_rows, succ_pass_rows) = 18
    /\ \A k \in shot_rows :
         RowCount(ev_rows, k) = IF k \in {"own_shot_near", "own_shot_far"} THEN 1 ELSE 0
    /\ NearerGoal(Row("own_shot_near").x[1], Row("own_shot_near").y[1]) = 1000
    /\ NearerGoal(Row("own_shot_far").x[1], Row("own_shot_far").y[1]) = 4000

XgNear == ShotXg(Row("own_shot_near").x[1], Row("own_shot_near").y[1])
XgFar == ShotXg(Row("own_shot_far").x[1], Row("own_shot_far").y[1])

FeatureGroup(name) ==
    CASE name \in {"possession_percent", "pass_accuracy", "passes_per_minute",
                   "long_balls_attempted", "long_balls_completed"} -> "possession_control"
      [] name \in {"total_shots", "shots_on_target", "shot_conversion_rate",
                   "shots_inside_box", "shots_outside_box"} -> "shooting_finishing"
      [] name \in {"xg", "xg_per_shot"} -> "expected_metrics"
      [] name \in {"key_passes", "progressive_passes", "passes_into_final_third",
                   "passes_into_penalty_area", "crosses_attempted",
                   "crosses_accurate", "cutbacks"} -> "chance_creation"
      [] name \in {"tackles_attempted", "tackles_won", "interceptions", "blocks",
                   "clearances", "defensive_duels_won_percent"} -> "defensive_actions"
      [] name \in {"ppda", "high_turnovers_won", "counter_press_recoveries"} ->
           "pressing_structure"
      [] name = "defensive_line_height" -> "team_shape"
      [] name \in {"corners_taken", "corners_conceded"} -> "set_pieces"

EventFeatures == Range(FEATURE_NAMES) \ FormFeatures

\* The fingerprints of a window: an estimated one has match_info alone, with
\* result and score None; an observed one has a result, a score, and in
\* every group either a number or None (a match without shots has None in
\* shooting_finishing and expected_metrics).
EstimatedEntry ==
    [estimated |-> TRUE, result |-> "None", score |-> None,
     value |-> None, shots |-> FALSE]
ObservedEntry(result, v, shots) ==
    [estimated |-> FALSE, result |-> result,
     score |-> IF result = "W" THEN Some(<<2, 1>>) ELSE Some(<<0, 1>>),
     value |-> Some(v), shots |-> shots]
WindowEntries ==
    {EstimatedEntry} \cup
    {ObservedEntry(r, v, sh) : r \in {"W", "L"}, v \in 0..MaxValue, sh \in BOOLEAN}

\* _safe_float(_safe_get(match, group, key))
_extract_match_features(match, name) ==
    IF match.estimated THEN None
    ELSE IF FeatureGroup(name) \in {"shooting_finishing", "expected_metrics"}
            /\ ~match.shots
    THEN None
    ELSE match.value

_result_to_points(result) ==
    IF result = "W" THEN 3 ELSE IF result = "D" THEN 1 ELSE 0

\* nums = [float(v) for v in values if isinstance(v, (int, float))]
RECURSIVE Nums(_)
Nums(values) ==
    IF values = <<>> THEN <<>>
    ELSE (IF Head(values) = None THEN <<>> ELSE <<Head(values)[1]>>) \o Nums(Tail(values))

RECURSIVE Sum(_)
Sum(nums) == IF nums = <<>> THEN 0 ELSE Head(nums) + Sum(Tail(nums))

\* _mean: None without numbers, else sum(nums) / len(nums)
_mean_nulls_as_zero(values) ==
    IF values = <<>> THEN None ELSE Some(<<Sum(Nums(values)), Len(values)>>)
_mean(values) ==
    LET nums == Nums(values)
    IN  IF nums = <<>> THEN None ELSE Some(<<Sum(nums), Len(nums)>>)

_aggregate_history_window(history) ==
    LET points == [i \in DOMAIN history |-> _result_to_points(history[i].result)]
        wins == [i \in DOMAIN history |-> IF points[i] >= 3 THEN 1 ELSE 0]
        goals_for == [i \in DOMAIN history |->
                        IF history[i].score = None THEN None
                        ELSE Some(history[i].score[1][1])]
        goals_against == [i \in DOMAIN history |->
                            IF history[i].score = None THEN None
                            ELSE Some(history[i].score[1][2])]
        n == Max(1, Len(history))
    IN  [name \in Range(FEATURE_NAMES) |->
           CASE name = "form_points_per_game" ->
                  IF points # <<>> THEN Some(<<Sum(points), n>>) ELSE None
             [] name = "form_win_rate" ->
                  IF points # <<>> THEN Some(<<Sum(wins), n>>) ELSE None
             [] name = "form_goals_for_avg" -> _mean(goals_for)
             [] name = "form_goals_against_avg" -> _mean(goals_against)
             [] OTHER ->
                  _mean([i \in DOMAIN history |->
                            _extract_match_features(history[i], name)])]

\* One more fingerprint in the window.
AppendHistory(fp) ==
    /\ ag_out = None
    /\ Len(ag_history) < MaxWindow
    /\ ag_history' = Append(ag_history, fp)
    /\ UNCHANGED ag_out

\* agg = self._aggregate_history_window(history), called on a window that
\* is not empty
Aggregate ==
    /\ ag_out = None
    /\ ag_history # <<>>
    /\ ag_out' = Some(_aggregate_history_window(ag_history))
    /\ UNCHANGED ag_history

InitAggregate ==
    /\ AggregateIdle
    /\ ServiceAtRest /\ LateIdle
    /\ NormalizeIdle /\ ShotIdle /\ RecentIdle /\ ConfidenceIdle /\ CollectIdle

NextAggregate ==
    \/ \E fp \in WindowEntries : AppendHistory(fp) /\ UNCHANGED <<mlvars, smvars, anvars, latevars, nzvars, shvars, rgvars, cfvars, cdvars>>
    \/ Aggregate /\ UNCHANGED <<mlvars, smvars, anvars, latevars, nzvars, shvars, rgvars, cfvars, cdvars>>

SpecAggregate == InitAggregate /\ [][NextAggregate]_vars

(***************************************************************************)
(* Claims about the aggregator (checked under SpecAggregate).              *)
(***************************************************************************)
\* The fingerprints of the window that supply the input of a feature: a
\* known result for the points and win rate, a score for the goal averages,
\* a non-null field for an event-derived feature.
Suppliers(name) ==
    {i \in DOMAIN ag_history :
        CASE name \in {"form_points_per_game", "form_win_rate"} ->
               ag_history[i].result \in {"W", "D", "L"}
          [] name \in {"form_goals_for_avg", "form_goals_against_avg"} ->
               ag_history[i].score # None
          [] OTHER ->
               /\ ~ag_history[i].estimated
               /\ FeatureGroup(name) \in {"shooting_finishing", "expected_metrics"}
                     => ag_history[i].shots}

\* C12: each of the 35 entries of the aggregate is unknown, not 0, when no
\* fingerprint of the window supplies its input; a window without a known
\* result has unknown form_points_per_game and form_win_rate.
C12_UnknownWithoutInput ==
    ag_out # None =>
      \A name \in Range(FEATURE_NAMES) :
         Suppliers(name) = {} => ag_out[1][name] = None

\* C13: an event-derived feature of the aggregate is the sum of the non-null
\* values of the field over their number, and is unknown when the window has
\* no non-null value; a null adds nothing to either.
C13_MeanOverNonNull ==
    ag_out # None =>
      \A name \in EventFeatures :
         LET has == Suppliers(name)
             total == SumOver(has, [i \in has |-> ag_history[i].value[1]])
         IN  ag_out[1][name] =
               IF has = {} THEN None ELSE Some(<<total, Cardinality(has)>>)

\* A window with a null and a non-null value of a field, the non-null one
\* not 0: the mean differs from the one that would count the null as 0.
C13_Witness ==
    /\ ag_out # None
    /\ Len(ag_history) = 3
    /\ Cardinality(Suppliers("xg")) = 1
    /\ Cardinality(Suppliers("ppda")) = 2
    /\ ag_out[1]["xg"] = Some(<<1, 1>>)
    /\ ag_out[1]["ppda"] = Some(<<2, 2>>)

(***************************************************************************)
(* _calculate_confidence of the recommendation engine.  PPDA is kept in    *)
(* hundredths and pass accuracy in tenths, as the normalizer rounds them.  *)
(***************************************************************************)
PpdaValues == {None, Some(800), Some(1000), Some(1200), Some(1700)}
PassAccuracyValues == {None, Some(650), Some(750), Some(900)}
DefensiveRatings == {"None", "Vulnerable", "Solid"}
AnalyzedValues == {None} \cup {Some(n) : n \in 1..MaxAnalyzed}

ConfidenceInputs ==
    [PPDA : PpdaValues, pass_accuracy : PassAccuracyValues,
     defensive_rating : DefensiveRatings, matches_analyzed : AnalyzedValues,
     estimated : BOOLEAN]

\* float(pressing.get('PPDA', 12) or 12), in hundredths
PpdaOrDefault(v) == IF v = None \/ v = Some(0) THEN 1200 ELSE v[1]
\* float(possession.get('pass_accuracy', 75) or 75), in tenths
PassAccuracyOrDefault(v) == IF v = None \/ v = Some(0) THEN 750 ELSE v[1]
\* int(matches_analyzed) if matches_analyzed is not None else 1
AnalyzedOrDefault(v) == IF v = None THEN 1 ELSE v[1]

\* if is_estimated: score -= 10
EstimatedPenalty_half(is_estimated) == IF is_estimated THEN 5 ELSE 0
EstimatedPenalty(is_estimated) == IF is_estimated THEN 10 ELSE 0

\* score, before the clamp
ConfidenceScore(stats) ==
    LET ppda == PpdaOrDefault(stats.PPDA)
        pass_accuracy == PassAccuracyOrDefault(stats.pass_accuracy)
        matches_analyzed == AnalyzedOrDefault(stats.matches_analyzed)
    IN  70
        + (IF ppda < 850 \/ ppda > 1600 THEN 10
           ELSE IF ppda < 1050 \/ ppda > 1350 THEN 5 ELSE 0)
        + (IF pass_accuracy < 700 \/ pass_accuracy > 850 THEN 5 ELSE 0)
        + (IF stats.defensive_rating \in {"Vulnerable", "Solid"} THEN 10 ELSE 0)
        + (IF matches_analyzed >= 8 THEN 10
           ELSE IF matches_analyzed >= 5 THEN 6
           ELSE IF matches_analyzed >= 3 THEN 3 ELSE 0)
        - EstimatedPenalty(stats.estimated)

\* "overall_confidence": min(95, score)
OverallConfidence_unclamped(score) == score
OverallConfidence(score) == Min(95, score)

_calculate_confidence(stats) ==
    LET score == ConfidenceScore(stats)
    IN  [overall_confidence |-> OverallConfidence(score),
         recommendation_reliability |-> IF score >= 85 THEN "HIGH" ELSE "MEDIUM"]

\* The same profile with the other value of `estimated`.
Twin(stats) == [stats EXCEPT !.estimated = ~@]

\* "ai_confidence": self._calculate_confidence(opponent_stats), for the
\* profile and for its twin
CalculateConfidence ==
    /\ cf_out = None
    /\ cf_stats # None
    /\ cf_out' = Some([own |-> _calculate_confidence(cf_stats[1]),
                       twin |-> _calculate_confidence(Twin(cf_stats[1]))])
    /\ UNCHANGED cf_stats

\* The engine is handed a profile.
ReceiveStats(stats) ==
    /\ cf_stats = None
    /\ cf_stats' = Some(stats)
    /\ UNCHANGED cf_out

InitConfidence ==
    /\ ConfidenceIdle
    /\ ServiceAtRest /\ LateIdle
    /\ NormalizeIdle /\ ShotIdle /\ RecentIdle /\ AggregateIdle /\ CollectIdle

NextConfidence ==
    \/ \E stats \in ConfidenceInputs : ReceiveStats(stats) /\ UNCHANGED <<mlvars, smvars, anvars, latevars, nzvars, shvars, rgvars, agvars, cdvars>>
    \/ CalculateConfidence /\ UNCHANGED <<mlvars, smvars, anvars, latevars, nzvars, shvars, rgvars, agvars, cdvars>>

SpecConfidence == InitConfidence /\ [][NextConfidence]_vars

(***************************************************************************)
(* Claims about the confidence (checked under SpecConfidence).             *)
(***************************************************************************)
\* C14: overall_confidence lies in [0, 95] for every profile.
C14_ConfidenceBounded ==
    cf_out # None =>
      /\ cf_out[1].own.overall_confidence \in 0..95
      /\ cf_out[1].twin.overall_confidence \in 0..95

\* A profile whose score passes 95 and is cut to 95.
C14_Witness ==
    /\ cf_out # None
    /\ ConfidenceScore(cf_stats[1]) = 105
    /\ cf_out[1].own.overall_confidence = 95

\* C15 (as claimed): the overall_confidence of the estimated one of two
\* otherwise identical profiles is exactly 10 below that of the observed one.
C15_EstimatedExactlyTenLower ==
    (cf_out # None /\ ~cf_stats[1].estimated) =>
      cf_out[1].twin.overall_confidence = cf_out[1].own.overall_confidence - 10

\* C15 (amended): the score of the estimated profile is exactly 10 below the
\* observed one's before the clamp to 95; overall_confidence is exactly 10
\* lower when the observed score is at most 95, and otherwise lower by what
\* the clamp leaves of the 10 (4 at a score of 101, nothing at 105).
C15_TenLowerBeforeClamp ==
    (cf_out # None /\ ~cf_stats[1].estimated) =>
      LET score == ConfidenceScore(cf_stats[1])
          own == cf_out[1].own.overall_confidence
          twin == cf_out[1].twin.overall_confidence
      IN  /\ ConfidenceScore(Twin(cf_stats[1])) = score - 10
          /\ twin = Min(95, score - 10)
          /\ score <= 95 => twin = own - 10
          /\ score > 95 => own - twin = 10 - (score - 95)

\* An observed profile at 105 and its estimated twin: both report 95.
C15_Witness ==
    /\ cf_out # None /\ ~cf_stats[1].estimated
    /\ ConfidenceScore(cf_stats[1]) = 105
    /\ cf_out[1].own.overall_confidence = 95
    /\ cf_out[1].twin.overall_confidence = 95

(***************************************************************************)
(* _collect_dataset: the loop over the leagues and the loop over the teams *)
(* of each league.                                                         *)
(***************************************************************************)
\* What get_recent_games_tactical does for a team: it raises, it returns a
\* list that yields no sample, or one that yields samples.
TeamAnswers == {"fetch_fails", "no_samples", "samples"}

\* What list_teams does for a league: it raises, or it returns teams.
LeagueAnswers ==
    {[listing |-> "fails", teams |-> <<>>]} \cup
    {[listing |-> "ok", teams |-> ts] : ts \in ListsUpTo(TeamAnswers, MaxTeams)}

CollectPlans == ListsUpTo(LeagueAnswers, MaxLeagues)

\* except Exception as e: logger...; continue
AfterFailure_abort == "raised"
AfterFailure == "running"

\* for league in leagues: ... (the next league, or the return)
NextLeague(league) == [league |-> league + 1, team |-> 0]

\* try: teams = ws.list_teams(...) except Exception: continue
ListTeams ==
    /\ cd_state = "running"
    /\ cd_pos.team = 0
    /\ cd_pos.league <= Len(cd_leagues)
    /\ LET answer == cd_leagues[cd_pos.league]
       IN  IF answer.listing = "fails"
           THEN /\ cd_state' = AfterFailure
                /\ cd_pos' = NextLeague(cd_pos.league)
           ELSE /\ cd_state' = "running"
                /\ cd_pos' = IF answer.teams = <<>> THEN NextLeague(cd_pos.league)
                             ELSE [cd_pos EXCEPT !.team = 1]
    /\ UNCHANGED <<cd_leagues, cd_rows>>

\* for team in teams: try: recent = ... except Exception: continue;
\* team_x, ... = self._build_samples_for_team(recent or []);
\* if not team_x: continue; x_rows.extend(team_x)
FetchTeam ==
    /\ cd_state = "running"
    /\ cd_pos.team >= 1
    /\ LET teams == cd_leagues[cd_pos.league].teams
           answer == teams[cd_pos.team]
           onward == IF cd_pos.team < Len(teams)
                     THEN [cd_pos EXCEPT !.team = @ + 1]
                     ELSE NextLeague(cd_pos.league)
       IN  /\ cd_pos' = onward
           /\ cd_state' = IF answer = "fetch_fails" THEN AfterFailure ELSE "running"
           /\ cd_rows' = IF answer = "samples"
                         THEN Append(cd_rows, <<cd_pos.league, cd_pos.team>>)
                         ELSE cd_rows
    /\ UNCHANGED cd_leagues

\* return {"X": np.asarray(x_rows, dtype=float), ...}
CollectReturn ==
    /\ cd_state = "running"
    /\ cd_pos.team = 0
    /\ cd_pos.league > Len(cd_leagues)
    /\ cd_state' = "returned"
    /\ UNCHANGED <<cd_leagues, cd_pos, cd_rows>>

InitCollect ==
    /\ cd_leagues \in CollectPlans
    /\ cd_pos = [league |-> 1, team |-> 0]
    /\ cd_rows = <<>>
    /\ cd_state = "running"
    /\ ServiceAtRest /\ LateIdle
    /\ NormalizeIdle /\ ShotIdle /\ RecentIdle /\ AggregateIdle /\ ConfidenceIdle

NextCollect ==
    \/ ListTeams /\ UNCHANGED <<mlvars, smvars, anvars, latevars, nzvars, shvars, rgvars, agvars, cfvars>>
    \/ FetchTeam /\ UNCHANGED <<mlvars, smvars, anvars, latevars, nzvars, shvars, rgvars, agvars, cfvars>>
    \/ CollectReturn /\ UNCHANGED <<mlvars, smvars, anvars, latevars, nzvars, shvars, rgvars, agvars, cfvars>>

SpecCollect == InitCollect /\ [][NextCollect]_vars

(***************************************************************************)
(* Claims about the dataset collection (checked under SpecCollect).        *)
(***************************************************************************)
\* The teams that did not fail and have samples, in leagues that listed.
TeamsWithSamples ==
    {<<l, t>> \in (1..Len(cd_leagues)) \X (1..MaxTeams + 1) :
        /\ cd_leagues[l].listing = "ok"
        /\ t <= Len(cd_leagues[l].teams)
        /\ cd_leagues[l].teams[t] = "samples"}

\* C16: no failure of a league listing or of a team fetch ends the
\* collection, and the returned dataset holds the samples of every team
\* that did not fail, once each.
C16_FailuresAreSkipped ==
    /\ cd_state # "raised"
    /\ cd_state = "returned" =>
         /\ Range(cd_rows) = TeamsWithSamples
         /\ Len(cd_rows) = Cardinality(TeamsWithSamples)

\* A collection that met a failing league and a failing team and returned
\* the samples of a team that came after them.
C16_Witness ==
    /\ cd_state = "returned"
    /\ Len(cd_leagues) = 2
    /\ cd_leagues[1].listing = "fails"
    /\ cd_leagues[2].teams = <<"fetch_fails", "samples">>
    /\ cd_rows = << <<2, 2>> >>

(***************************************************************************)
(* get_recent_games_tactical: the loop over the finished matches of a      *)
(* team, reading and normalizing the events of each.                       *)
(***************************************************************************)
OnePass == [batch |-> NoRows, extra |-> [NoRows EXCEPT !["own_pass_ok"] = 1]]
EmptyFrame == [batch |-> NoRows, extra |-> NoRows]

\* What the reader has for a match: read_events raises under each of the
\* three keywords, or returns None, an empty frame or a frame with rows.
Payloads ==
    {[read |-> "raises", df |-> None],
     [read |-> "ok", df |-> None],
     [read |-> "ok", df |-> Some(EmptyFrame)],
     [read |-> "ok", df |-> Some(OnePass)]}

\* The finished matches: an event has an id or not, and a payload.
FinishedEvents ==
    {[has_id |-> FALSE, payload |-> [read |-> "ok", df |-> None]]} \cup
    {[has_id |-> TRUE, payload |-> p] : p \in Payloads}

\* _read_events: the frame of the first keyword that works, RuntimeError
\* when none does.
_read_events(payload) ==
    IF payload.read = "raises" THEN [raised |-> TRUE, df |-> None]
    ELSE [raised |-> FALSE, df |-> payload.df]

\* if events_df is None or len(events_df) == 0: return {"estimated": True, ...}
NormalizeFrame(df) ==
    IF df = None THEN EstimatedMatch ELSE _normalize_tactical_from_events(df[1])

\* if len(out) >= int(limit): break      (and the end of the loop)
RecentReturn ==
    /\ rg_state = "running"
    /\ \/ Len(rg_out) >= RecentLimit
       \/ rg_next > Len(rg_events)
    /\ rg_state' = "returned"
    /\ UNCHANGED <<rg_events, rg_next, rg_out>>

\* One pass of the loop body over the event rg_next.
RecentStep ==
    /\ rg_state = "running"
    /\ Len(rg_out) < RecentLimit
    /\ rg_next <= Len(rg_events)
    /\ LET ev == rg_events[rg_next]
           got == _read_events(ev.payload)
       IN  rg_out' =
             IF ~ev.has_id THEN rg_out                  \* continue
             ELSE IF got.raised THEN rg_out             \* except: logger.warning
             ELSE Append(rg_out, [event |-> rg_next, fp |-> NormalizeFrame(got.df)])
    /\ rg_next' = rg_next + 1
    /\ UNCHANGED <<rg_events, rg_state>>

InitRecent ==
    /\ rg_events \in ListsUpTo(FinishedEvents, MaxEvents)
    /\ rg_next = 1
    /\ rg_out = <<>>
    /\ rg_state = "running"
    /\ ServiceAtRest /\ LateIdle
    /\ NormalizeIdle /\ ShotIdle /\ AggregateIdle /\ ConfidenceIdle /\ CollectIdle

NextRecent ==
    \/ RecentStep /\ UNCHANGED <<mlvars, smvars, anvars, latevars, nzvars, shvars, agvars, cfvars, cdvars>>
    \/ RecentReturn /\ UNCHANGED <<mlvars, smvars, anvars, latevars, nzvars, shvars, agvars, cfvars, cdvars>>

SpecRecent == InitRecent /\ [][NextRecent]_vars

(***************************************************************************)
(* Claims about get_recent_games_tactical (checked under SpecRecent).      *)
(***************************************************************************)
\* The entry of `out` made for the event at a position of the list.
EntriesOf(i) == {k \in 1..Len(rg_out) : rg_out[k].event = i}

OnlyMatchInfo(fp) == fp.estimated /\ \A name \in Metrics : fp.metrics[name] = None

NoEventsRead(payload) ==
    payload.read = "raises" \/ payload.df = None \/ payload.df = Some(EmptyFrame)

\* C17: every match the loop has gone through whose event list is empty or
\* whose payload could not be read has a fingerprint in the returned list,
\* estimated and with match_info only.
C17_UnreadableStillYieldsFingerprint ==
    \A i \in 1..(rg_next - 1) :
        (rg_events[i].has_id /\ NoEventsRead(rg_events[i].payload)) =>
            \E k \in EntriesOf(i) : OnlyMatchInfo(rg_out[k].fp)

\* What the code does keep: a match whose payload was read and is None or
\* empty has an estimated fingerprint in the list.
EmptyEventsYieldEstimated ==
    \A i \in 1..(rg_next - 1) :
        (rg_events[i].has_id /\ rg_events[i].payload.read = "ok"
           /\ NoEventsRead(rg_events[i].payload)) =>
            \E k \in EntriesOf(i) : OnlyMatchInfo(rg_out[k].fp)

(***************************************************************************)
(* The per-shot xG proxy over the pitch.                                   *)
(***************************************************************************)
\* The coordinates of the 0..100 pitch shots are drawn from, edges included.
Coordinates == {(100 * i) \div GridCells : i \in 0..GridCells}
PitchPositions == Coordinates \X Coordinates

\* xg_values.append(max(0.01, min(0.85, xg))) for each of the two shots
ComputeXg ==
    /\ sh_in # None
    /\ sh_out = None
    /\ sh_out' = Some(<<ShotXg(sh_in[1][1], sh_in[1][2]), ShotXg(sh_in[2][1], sh_in[2][2])>>)
    /\ UNCHANGED sh_in

InitShot ==
    /\ sh_in \in PitchPositions \X PitchPositions
    /\ sh_out = None
    /\ ServiceAtRest /\ LateIdle
    /\ NormalizeIdle /\ RecentIdle /\ AggregateIdle /\ ConfidenceIdle /\ CollectIdle

NextShot ==
    ComputeXg /\ UNCHANGED <<mlvars, smvars, anvars, latevars, nzvars, rgvars, agvars, cfvars, cdvars>>

SpecShot == InitShot /\ [][NextShot]_vars

(***************************************************************************)
(* Claims about the xG proxy (checked under SpecShot).                     *)
(***************************************************************************)
\* The squared distance of a position to the nearer goal centre.
NearerGoalSquared(p) ==
    LET dy2 == (50 - p[2]) * (50 - p[2])
        right == (100 - p[1]) * (100 - p[1]) + dy2
        left == p[1] * p[1] + dy2
    IN  IF right <= left THEN right ELSE left

\* C20: of two shots on the pitch, the one not farther from the nearer goal
\* centre has an xg that is not smaller, and every xg lies in [0.01, 0.85].
C20_XgMonotoneAndBounded ==
    sh_out # None =>
      /\ \A i \in 1..2 : sh_out[1][i] >= 100 /\ sh_out[1][i] <= 8500
      /\ NearerGoalSquared(sh_in[1]) <= NearerGoalSquared(sh_in[2])
           => sh_out[1][1] >= sh_out[1][2]

\* Two shots at different distances, both with an xg strictly inside the
\* clamp, the nearer one with the strictly larger xg.
C20_Witness ==
    /\ sh_out # None
    /\ NearerGoalSquared(sh_in[1]) < NearerGoalSquared(sh_in[2])
    /\ 8500 > sh_out[1][1]
    /\ sh_out[1][1] > sh_out[1][2]
    /\ sh_out[1][2] > 100

\* A shot from the goal centre reaches the upper clamp, one from the centre
\* spot the lower.
C20_ClampsReached ==
    /\ sh_out # None
    /\ sh_in = << <<100, 50>>, <<50, 50>> >>
    /\ sh_out[1] = <<8500, 100>>

(***************************************************************************)
(* predict after the estimators have answered: the risk score, its bucket  *)
(* and the hints.  Probabilities are in ten-thousandths, goals in          *)
(* hundredths, the risk score in thousandths, the returned score in        *)
(* tenths.                                                                 *)
(***************************************************************************)
\* result_model.named_steps["model"].classes_: the results seen in training
ClassSets == (SUBSET {"W", "D", "L"}) \ {{}}
WinProbabilities == {0, 2500, 4196, 5000, 6196, 6200, 10000}
GoalValues == {50 * i : i \in 0..(2 * MaxGoals)}
EstimatorOutputs ==
    [classes : ClassSets, win : WinProbabilities,
     goals_for : GoalValues, goals_against : GoalValues]

\* p_win = prob_map.get("W", 0.0)
p_win(out) == IF "W" \in out.classes THEN out.win ELSE 0

\* risk_score = max(0.0, min(100.0, p_win*100 + goals_for*15 - goals_against*7.5))
risk_score_unclamped(out) ==
    p_win(out) * 10 + out.goals_for * 150 - out.goals_against * 75
risk_score(out) ==
    Max(0, Min(100000, p_win(out) * 10 + out.goals_for * 150 - out.goals_against * 75))

\* round(risk_score, 1): the nearest tenth, either neighbour when the
\* decimal value is half-way (the float's binary expansion decides there)
RoundToTenths(score) ==
    {r \in {score \div 100, score \div 100 + 1} :
        (r * 100 - score) <= 50 /\ (score - r * 100) <= 50}

\* if risk_score >= 62: ... elif risk_score >= 42: ... else: ...
RiskHints(score) ==
    IF score >= 62000
    THEN [risk_level |-> "high", formation_hint |-> "4-1-4-1",
          pressing_hint |-> "MID/LOW BLOCK",
          attack_focus |-> "transitions_and_set_pieces",
          game_state |-> "control_risk_first"]
    ELSE IF score >= 42000
    THEN [risk_level |-> "medium", formation_hint |-> "4-2-3-1",
          pressing_hint |-> "MID BLOCK + TRIGGERS",
          attack_focus |-> "balanced_channels",
          game_state |-> "balanced_plan"]
    ELSE [risk_level |-> "low", formation_hint |-> "4-3-3 Attack",
          pressing_hint |-> "HIGH PRESS",
          attack_focus |-> "sustained_pressure",
          game_state |-> "proactive_dominance"]

\* The estimators answer a row.
EstimatorsAnswer(out) ==
    /\ rk_in = None
    /\ rk_in' = Some(out)
    /\ UNCHANGED rk_out

\* return {"enabled": True, ..., "opponent_risk_score": round(risk_score, 1),
\*         "opponent_risk_level": risk_level, "recommendations": {...}}
PredictReturn ==
    /\ rk_in # None
    /\ rk_out = None
    /\ \E rounded \in RoundToTenths(risk_score(rk_in[1])) :
         rk_out' = Some([opponent_risk_score |-> rounded,
                         hints |-> RiskHints(risk_score(rk_in[1]))])
    /\ UNCHANGED rk_in

InitRisk ==
    /\ RiskIdle
    /\ ServiceAtRest /\ PipelineIdle
    /\ BlendIdle /\ AdjustIdle /\ FetchIdle /\ FeaturesIdle /\ EngineIdle

NextRisk ==
    \/ /\ rk_in = None
       /\ \E out \in EstimatorOutputs : EstimatorsAnswer(out)
       /\ UNCHANGED <<mlvars, smvars, anvars, pipevars, blvars, cavars, sfvars, ftvars, pgvars>>
    \/ PredictReturn /\ UNCHANGED <<mlvars, smvars, anvars, pipevars, blvars, cavars, sfvars, ftvars, pgvars>>

SpecRisk == InitRisk /\ [][NextRisk]_vars

(***************************************************************************)
(* Claims about the risk score (checked under SpecRisk).                   *)
(***************************************************************************)
\* p_win*100 + goals_for*15 - goals_against*7.5 of the input, in thousandths,
\* p_win 0 without a class W.
RawRisk ==
    (IF "W" \in rk_in[1].classes THEN rk_in[1].win * 10 ELSE 0)
      + rk_in[1].goals_for * 150 - rk_in[1].goals_against * 75
ClampedRisk == IF RawRisk < 0 THEN 0 ELSE IF RawRisk > 100000 THEN 100000 ELSE RawRisk

C21_NoWinClass ==
    /\ rk_out # None
    /\ "W" \notin rk_in[1].classes
    /\ rk_in[1].win > 0
    /\ rk_out[1].opponent_risk_score = 225

\* C30: the level and the formation hint returned are the bucket of the
\* returned opponent_risk_score: high / 4-1-4-1 iff it is >= 62, medium /
\* 4-2-3-1 iff it is >= 42 and < 62, low / 4-3-3 Attack otherwise.
C30_HintsAreBucketOfReturnedScore ==
    rk_out # None =>
      LET score == rk_out[1].opponent_risk_score
          hints == rk_out[1].hints
      IN  /\ (hints.risk_level = "high" /\ hints.formation_hint = "4-1-4-1") <=> score >= 620
          /\ (hints.risk_level = "medium" /\ hints.formation_hint = "4-2-3-1")
               <=> (score >= 420 /\ score < 620)
          /\ (hints.risk_level = "low" /\ hints.formation_hint = "4-3-3 Attack") <=> score < 420

\* What the code does keep: the hints are the bucket of the score before
\* it is rounded.
HintsAreBucketOfUnroundedScore ==
    rk_out # None =>
      /\ rk_out[1].hints.risk_level = "high" <=> ClampedRisk >= 62000
      /\ rk_out[1].hints.risk_level = "medium" <=> (ClampedRisk >= 42000 /\ ClampedRisk < 62000)
      /\ rk_out[1].hints.risk_level = "low" <=> ClampedRisk < 42000

(***************************************************************************)
(* _blend_profiles of the recommendation service.  Weights are in          *)
(* hundredths; a blended number is kept as a multiple of 1/100.            *)
(***************************************************************************)
\* The fields blended_num is applied to (ppda is never observed:
\* _aggregate_current_observations does not produce it).
BlendedFields == {"possession_percent", "shots_per_game", "ppda"}
ObservedFields == {"possession_percent", "shots_per_game"}
FieldValues == {None, Some(0), Some(40), Some(60)}
PpdaBaselines == {None, Some(12)}

HistoricalProfiles ==
    {[f \in BlendedFields |-> IF f = "ppda" THEN p ELSE h[f]] :
        h \in [ObservedFields -> FieldValues], p \in PpdaBaselines}

\* _aggregate_current_observations: {} without observations, else the
\* means with sample_size = len(observations)
ObservedProfiles ==
    {None} \cup
    {Some([sample_size |-> n,
           fields |-> [f \in BlendedFields |-> IF f = "ppda" THEN None ELSE o[f]]]) :
        n \in 1..MaxObservations, o \in [ObservedFields -> FieldValues]}

\* _clamp(0.18 * sample_size, 0.0, 0.54)
observed_weight_unclamped(sample_size) == 18 * sample_size
observed_weight(sample_size) == Max(0, Min(54, 18 * sample_size))

historical_weight(sample_size) == 100 - observed_weight(sample_size)

\* blended_num(field)
blended_num(h, o, sample_size) ==
    IF h = None THEN (IF o = None THEN None ELSE Some(o[1] * 100))
    ELSE IF o = None THEN Some(h[1] * 100)
    ELSE Some(h[1] * historical_weight(sample_size) + o[1] * observed_weight(sample_size))

_blend_profiles(historical, observed) ==
    IF observed = None THEN [copy |-> TRUE, profile |-> historical]
    ELSE [copy |-> FALSE,
          profile |-> [f \in BlendedFields |->
                          blended_num(historical[f], observed[1].fields[f],
                                      observed[1].sample_size)],
          historical_weight |-> historical_weight(observed[1].sample_size),
          observed_weight |-> observed_weight(observed[1].sample_size)]

\* The request brings the baseline and the observations.
ReceiveProfiles(historical, observed) ==
    /\ bl_in = None
    /\ bl_in' = Some([historical |-> historical, observed |-> observed])
    /\ UNCHANGED bl_out

\* blended = self._blend_profiles(historical, observed)
Blend ==
    /\ bl_in # None
    /\ bl_out = None
    /\ bl_out' = Some(_blend_profiles(bl_in[1].historical, bl_in[1].observed))
    /\ UNCHANGED bl_in

InitBlend ==
    /\ BlendIdle
    /\ ServiceAtRest /\ PipelineIdle
    /\ RiskIdle /\ AdjustIdle /\ FetchIdle /\ FeaturesIdle /\ EngineIdle

NextBlend ==
    \/ /\ bl_in = None
       /\ \E h \in HistoricalProfiles, o \in ObservedProfiles : ReceiveProfiles(h, o)
       /\ UNCHANGED <<mlvars, smvars, anvars, pipevars, rkvars, cavars, sfvars, ftvars, pgvars>>
    \/ Blend /\ UNCHANGED <<mlvars, smvars, anvars, pipevars, rkvars, cavars, sfvars, ftvars, pgvars>>

SpecBlend == InitBlend /\ [][NextBlend]_vars

(***************************************************************************)
(* Claims about the blend (checked under SpecBlend).                       *)
(***************************************************************************)
Between(v, a, b) == (a <= v /\ v <= b) \/ (b <= v /\ v <= a)

\* C22: the observed weight is clamp(0.18 * sample_size, 0, 0.54) and the
\* historical weight 1 minus it; a blended field is historical *
\* historical_weight + observed * observed_weight when both are present (so
\* between the two), the present value when the other is absent, and with
\* no observations the blended profile is the historical profile.
C22_BlendIsWeightedMean ==
    bl_out # None =>
      LET hist == bl_in[1].historical
          obs == bl_in[1].observed
          out == bl_out[1]
      IN  IF obs = None THEN out.copy /\ out.profile = hist
          ELSE LET n == obs[1].sample_size
                   ow == IF 18 * n > 54 THEN 54 ELSE 18 * n
               IN  /\ out.observed_weight = ow
                   /\ out.historical_weight = 100 - ow
                   /\ \A f \in BlendedFields :
                        LET h == hist[f]
                            o == obs[1].fields[f]
                        IN  /\ (h # None /\ o # None) =>
                                 /\ out.profile[f] = Some(h[1] * (100 - ow) + o[1] * ow)
                                 /\ Between(out.profile[f][1], h[1] * 100, o[1] * 100)
                            /\ (h # None /\ o = None) => out.profile[f] = Some(h[1] * 100)
                            /\ (h = None /\ o # None) => out.profile[f] = Some(o[1] * 100)
                            /\ (h = None /\ o = None) => out.profile[f] = None

\* Four observations: the weight is held at 0.54 and possession 40 against
\* an observed 60 blends to 50.8.
C22_Witness ==
    /\ bl_out # None
    /\ bl_in[1].observed # None
    /\ bl_in[1].observed[1].sample_size = 4
    /\ bl_in[1].historical["possession_percent"] = Some(40)
    /\ bl_in[1].observed[1].fields["possession_percent"] = Some(60)
    /\ bl_out[1].observed_weight = 54
    /\ bl_out[1].profile["possession_percent"] = Some(5080)

\* No observations: the historical profile comes back.
C22_NoObservations ==
    /\ bl_out # None
    /\ bl_in[1].observed = None
    /\ bl_out[1].profile = bl_in[1].historical
    /\ bl_in[1].historical["possession_percent"] # None

(***************************************************************************)
(* _confidence_adjustment of the recommendation service.  Field values are *)
(* in tenths; the adjusted confidence is kept in sixths (completeness is a *)
(* number of sixths), the returned one in tenths.                          *)
(***************************************************************************)
\* (field, threshold, penalty) of the divergence loop, thresholds in tenths
DivergenceRules ==
    {[field |-> "possession_percent", threshold |-> 100, penalty |-> 4],
     [field |-> "shots_per_game", threshold |-> 40, penalty |-> 3],
     [field |-> "goals_conceded_per_game", threshold |-> 8, penalty |-> 3]}
DivergenceFields == {r.field : r \in DivergenceRules}
RuleOf(f) == CHOOSE r \in DivergenceRules : r.field = f

\* A baseline value, and observed values at, just inside and just beyond
\* the threshold's distance from it, on either side.
BaselineValue(f) == 500
HistoricalValues(f) == {None, Some(BaselineValue(f))}
ObservedValues(f) ==
    {None, Some(BaselineValue(f)),
     Some(BaselineValue(f) + RuleOf(f).threshold - 1),
     Some(BaselineValue(f) + RuleOf(f).threshold),
     Some(BaselineValue(f) - RuleOf(f).threshold)}

\* base_ai_confidence.get("overall_confidence"): absent, or the engine's score
BaseConfidences == {None, Some(0), Some(40), Some(72), Some(88), Some(95)}

AdjustInputs ==
    {[base |-> b, historical |-> h, observed |-> None] :
        b \in BaseConfidences,
        h \in {hh \in [DivergenceFields -> {None, Some(500)}] :
                  \A f \in DivergenceFields : hh[f] \in HistoricalValues(f)}} \cup
    {[base |-> b, historical |-> h,
      observed |-> Some([sample_size |-> n, fields |-> o, others |-> k])] :
        b \in BaseConfidences,
        h \in {hh \in [DivergenceFields -> {None, Some(500)}] :
                  \A f \in DivergenceFields : hh[f] \in HistoricalValues(f)},
        n \in 1..MaxObservations,
        k \in {0, 3},
        o \in {oo \in [DivergenceFields ->
                        UNION {ObservedValues(f) : f \in DivergenceFields}] :
                  \A f \in DivergenceFields : oo[f] \in ObservedValues(f)}}

\* float(base_ai_confidence.get("overall_confidence", 70) or 70)
base_score(base) == IF base = None \/ base = Some(0) THEN 70 ELSE base[1]

\* The signals of completeness_signals that are not None: possession,
\* shots and goals conceded of the model, and `others` of goals scored,
\* pressing level and build-up pattern.
CompletenessCount(observed) ==
    IF observed = None THEN 0
    ELSE observed[1].others
         + Cardinality({f \in {"possession_percent", "shots_per_game",
                               "goals_conceded_per_game"} :
                           observed[1].fields[f] # None})

Abs(n) == IF n < 0 THEN -n ELSE n

\* if hv is None or ov is None: continue; if abs(hv - ov) >= threshold
Diverges_strictly(historical, observed, rule) ==
    /\ observed # None
    /\ historical[rule.field] # None
    /\ observed[1].fields[rule.field] # None
    /\ Abs(historical[rule.field][1] - observed[1].fields[rule.field][1]) > rule.threshold
Diverges(historical, observed, rule) ==
    /\ observed # None
    /\ historical[rule.field] # None
    /\ observed[1].fields[rule.field] # None
    /\ Abs(historical[rule.field][1] - observed[1].fields[rule.field][1]) >= rule.threshold

RECURSIVE PenaltySum(_, _, _)
PenaltySum(historical, observed, rules) ==
    IF rules = {} THEN 0
    ELSE LET r == CHOOSE r \in rules : TRUE
         IN  (IF Diverges(historical, observed, r) THEN r.penalty ELSE 0)
               + PenaltySum(historical, observed, rules \ {r})

\* adjusted = _clamp(base_score - seasonal_drift_penalty + manual_boost
\*                   + quality_boost - divergence_penalty, 30.0, 92.0), in sixths
Adjusted_unclamped(input) ==
    LET sample_size == IF input.observed = None THEN 0 ELSE input.observed[1].sample_size
    IN  6 * base_score(input.base) - 6 * 14 + 21 * sample_size
          + 8 * CompletenessCount(input.observed)
          - 6 * PenaltySum(input.historical, input.observed, DivergenceRules)
Adjusted(input) ==
    LET sample_size == IF input.observed = None THEN 0 ELSE input.observed[1].sample_size
    IN  Max(6 * 30, Min(6 * 92,
          6 * base_score(input.base) - 6 * 14 + 21 * sample_size
            + 8 * CompletenessCount(input.observed)
            - 6 * PenaltySum(input.historical, input.observed, DivergenceRules)))

\* if adjusted >= 80: "ALTA" elif adjusted >= 60: "MEDIA" else: "BAIXA"
Reliability(adjusted) ==
    IF adjusted >= 6 * 80 THEN "ALTA"
    ELSE IF adjusted >= 6 * 60 THEN "MEDIA" ELSE "BAIXA"

_confidence_adjustment(input) ==
    [adjusted_confidence |-> Round(Adjusted(input) * 10, 6),
     recommendation_reliability |-> Reliability(Adjusted(input)),
     divergence_penalty |-> PenaltySum(input.historical, input.observed, DivergenceRules),
     observation_sample_size |->
        IF input.observed = None THEN 0 ELSE input.observed[1].sample_size]

\* The request brings the engine's confidence and the two profiles.
ReceiveConfidence(input) ==
    /\ ca_in = None
    /\ ca_in' = Some(input)
    /\ UNCHANGED ca_out

\* confidence = self._confidence_adjustment(ai_confidence, historical, observed)
AdjustConfidence ==
    /\ ca_in # None
    /\ ca_out = None
    /\ ca_out' = Some(_confidence_adjustment(ca_in[1]))
    /\ UNCHANGED ca_in

InitAdjust ==
    /\ AdjustIdle
    /\ ServiceAtRest /\ PipelineIdle
    /\ RiskIdle /\ BlendIdle /\ FetchIdle /\ FeaturesIdle /\ EngineIdle

NextAdjust ==
    \/ /\ ca_in = None
       /\ \E input \in AdjustInputs : ReceiveConfidence(input)
       /\ UNCHANGED <<mlvars, smvars, anvars, pipevars, rkvars, blvars, sfvars, ftvars, pgvars>>
    \/ AdjustConfidence /\ UNCHANGED <<mlvars, smvars, anvars, pipevars, rkvars, blvars, sfvars, ftvars, pgvars>>

SpecAdjust == InitAdjust /\ [][NextAdjust]_vars

(***************************************************************************)
(* Claims about the confidence adjustment (checked under SpecAdjust).      *)
(***************************************************************************)
\* The fields whose two values are present and at least the threshold apart.
DivergentFields ==
    {r \in DivergenceRules :
        /\ ca_in[1].observed # None
        /\ ca_in[1].historical[r.field] # None
        /\ ca_in[1].observed[1].fields[r.field] # None
        /\ LET d == ca_in[1].historical[r.field][1] - ca_in[1].observed[1].fields[r.field][1]
           IN  d >= r.threshold \/ -d >= r.threshold}

PenaltyOf(rules) ==
    4 * Cardinality({r \in rules : r.field = "possession_percent"})
      + 3 * Cardinality({r \in rules : r.field # "possession_percent"})

\* C23: a field's penalty is subtracted exactly when both its values are
\* present and differ by at least its threshold; the adjusted confidence
\* lies in [30, 92]; the tier is ALTA iff it is >= 80, MEDIA iff it is
\* >= 60 and < 80, BAIXA otherwise.
C23_PenaltyRangeAndTier ==
    ca_out # None =>
      LET adjusted == ca_out[1].adjusted_confidence
          tier == ca_out[1].recommendation_reliability
      IN  /\ ca_out[1].divergence_penalty = PenaltyOf(DivergentFields)
          /\ adjusted >= 300 /\ adjusted <= 920
          /\ tier = "ALTA" <=> adjusted >= 800
          /\ tier = "MEDIA" <=> (adjusted >= 600 /\ adjusted < 800)
          /\ tier = "BAIXA" <=> adjusted < 600

\* Possession exactly 10 points apart is penalised, shots 3.9 apart are not,
\* goals conceded have no baseline: penalty 4.
C23_Witness ==
    /\ ca_out # None
    /\ ca_in[1].observed # None
    /\ ca_in[1].historical["possession_percent"] = Some(500)
    /\ ca_in[1].observed[1].fields["possession_percent"] = Some(600)
    /\ ca_in[1].historical["shots_per_game"] = Some(500)
    /\ ca_in[1].observed[1].fields["shots_per_game"] = Some(539)
    /\ ca_in[1].historical["goals_conceded_per_game"] = None
    /\ ca_in[1].observed[1].fields["goals_conceded_per_game"] = Some(508)
    /\ ca_out[1].divergence_penalty = 4

\* Both clamps are reached.
C23_ClampedLow == ca_out # None /\ Adjusted_unclamped(ca_in[1]) < 180 /\ ca_out[1].adjusted_confidence = 300
C23_ClampedHigh == ca_out # None /\ Adjusted_unclamped(ca_in[1]) > 552 /\ ca_out[1].adjusted_confidence = 920

(***************************************************************************)
(* SofaScoreService._get: one GET over the base URLs in order.             *)
(***************************************************************************)
\* What a base URL does with the request: a JSON answer, a status, or a
\* transport error (no response at all, or a body that is not JSON).
UrlAnswers == {"200", "404", "403", "429", "500", "transport"}

\* if status in (403, 429): ...; continue
Denied_any == {"403", "429", "500"}
Denied == {"403", "429"}

\* One pass of `for base_url in self.base_urls`.
FetchTry ==
    /\ sf_state = "running"
    /\ sf_pos <= Len(sf_answers)
    /\ LET answer == sf_answers[sf_pos]
       IN  CASE answer = "200" ->            \* return resp.json() or {}
                  /\ sf_state' = "returned_payload"
                  /\ UNCHANGED <<sf_pos, sf_last_error>>
             [] answer = "404" ->            \* return {}
                  /\ sf_state' = "returned_empty"
                  /\ UNCHANGED <<sf_pos, sf_last_error>>
             [] answer = "transport" ->      \* except Exception: continue
                  /\ sf_last_error' = Some(answer)
                  /\ sf_pos' = sf_pos + 1
                  /\ UNCHANGED sf_state
             [] OTHER ->                     \* except httpx.HTTPStatusError
                  /\ sf_last_error' = Some(answer)
                  /\ IF answer \in Denied
                     THEN sf_pos' = sf_pos + 1 /\ UNCHANGED sf_state
                     ELSE sf_state' = "raised" /\ UNCHANGED sf_pos
    /\ UNCHANGED sf_answers

\* if last_error: raise last_error; return {}
FetchExhausted ==
    /\ sf_state = "running"
    /\ sf_pos > Len(sf_answers)
    /\ sf_state' = IF sf_last_error # None THEN "raised" ELSE "returned_empty"
    /\ UNCHANGED <<sf_answers, sf_pos, sf_last_error>>

\* self.base_urls holds the primary URL and https://www.sofascore.com/api/v1
\* at least: it is never empty.
InitFetch ==
    /\ sf_answers \in ListsUpTo(UrlAnswers, MaxBaseUrls) \ {<<>>}
    /\ sf_pos = 1
    /\ sf_last_error = None
    /\ sf_state = "running"
    /\ ServiceAtRest /\ PipelineIdle
    /\ RiskIdle /\ BlendIdle /\ AdjustIdle /\ FeaturesIdle /\ EngineIdle

NextFetch ==
    \/ FetchTry /\ UNCHANGED <<mlvars, smvars, anvars, pipevars, rkvars, blvars, cavars, ftvars, pgvars>>
    \/ FetchExhausted /\ UNCHANGED <<mlvars, smvars, anvars, pipevars, rkvars, blvars, cavars, ftvars, pgvars>>

SpecFetch == InitFetch /\ [][NextFetch]_vars

(***************************************************************************)
(* Claims about the fetch (checked under SpecFetch).                       *)
(***************************************************************************)
Failures == {"403", "429", "500", "transport"}
Retried == {"403", "429", "transport"}
AllBefore(i, S) == \A j \in 1..(i - 1) : sf_answers[j] \in S
FirstSuccess ==
    IF \E i \in 1..Len(sf_answers) : sf_answers[i] = "200"
    THEN CHOOSE i \in 1..Len(sf_answers) :
            sf_answers[i] = "200" /\ \A j \in 1..(i - 1) : sf_answers[j] # "200"
    ELSE 0

\* C24 as stated: a base URL that answers 403 or 429 or fails in transport
\* is followed by the next one, the first successful response is returned,
\* and an error is raised only when every base URL has failed.
C24_RaisedOnlyWhenAllFailed ==
    /\ sf_state = "raised" => \A i \in 1..Len(sf_answers) : sf_answers[i] \in Failures
    /\ sf_state = "returned_payload" => sf_pos = FirstSuccess

\* C24 amended: 403, 429 and transport errors pass the request on to the
\* next base URL; the first base URL that answers otherwise ends the call:
\* 200 returns its payload, 404 returns {}, any other status is raised at
\* once; when every base URL was passed over, the last error is raised.
C24_FirstDecisiveAnswerEnds ==
    /\ sf_state \in {"returned_payload", "returned_empty", "raised"} =>
         AllBefore(Min(sf_pos, Len(sf_answers) + 1), Retried)
    /\ sf_state = "returned_payload" => sf_answers[sf_pos] = "200"
    /\ sf_state = "returned_empty" =>
         sf_pos <= Len(sf_answers) /\ sf_answers[sf_pos] = "404"
    /\ sf_state = "raised" =>
         \/ /\ sf_pos <= Len(sf_answers)
            /\ sf_answers[sf_pos] \notin (Retried \cup {"200", "404"})
            /\ sf_last_error = Some(sf_answers[sf_pos])
         \/ /\ sf_pos = Len(sf_answers) + 1
            /\ sf_last_error = Some(sf_answers[Len(sf_answers)])

\* 403, then a transport error, then a payload: the third URL's payload is
\* returned.
C24_Witness ==
    /\ sf_answers = <<"403", "transport", "200">>
    /\ sf_state = "returned_payload"
    /\ sf_pos = 3

\* A 500 from the first base URL is raised although the second would answer.
C24_RaisedEarly ==
    /\ sf_answers[1] = "500"
    /\ Len(sf_answers) >= 2
    /\ sf_answers[2] = "200"
    /\ sf_state = "raised"
    /\ sf_pos = 1

(***************************************************************************)
(* _build_features_from_profile: the history the form features and the     *)
(* fallbacks are aggregated over.                                          *)
(***************************************************************************)
\* The fingerprints of n consecutive match days with the given results.
DatedEntries(results) ==
    [i \in DOMAIN results |-> [day |-> i, entry |-> ObservedEntry(results[i], 0, FALSE)]]

Reverse(s) == [i \in DOMAIN s |-> s[Len(s) + 1 - i]]

\* recent_games_tactical as a caller can supply it: the producers of this
\* repository return the newest match first, the aggregator's input is
\* specified oldest first.
SuppliedHistories ==
    {DatedEntries(r) : r \in ListsUpTo({"W", "L"}, MaxSupplied) \ {<<>>}} \cup
    {Reverse(DatedEntries(r)) : r \in ListsUpTo({"W", "L"}, MaxSupplied) \ {<<>>}}

\* history = recent_games_tactical[: self.window_size]
InferenceWindow(recent, size) == SubSeq(recent, 1, Min(size, Len(recent)))

\* predict is called with a history, on a service with a configured window.
ReceiveHistory(recent, size) ==
    /\ ft_in = None
    /\ ft_in' = Some([recent |-> recent, window_size |-> size])
    /\ UNCHANGED ft_out

\* if recent_games_tactical: history = ...; agg = self._aggregate_history_window(history)
BuildFormFeatures ==
    /\ ft_in # None
    /\ ft_out = None
    /\ LET history == InferenceWindow(ft_in[1].recent, ft_in[1].window_size)
       IN  ft_out' = Some([history |-> history,
                           agg |-> _aggregate_history_window(
                                      [i \in DOMAIN history |-> history[i].entry])])
    /\ UNCHANGED ft_in

InitFeatures ==
    /\ FeaturesIdle
    /\ ServiceAtRest /\ PipelineIdle
    /\ RiskIdle /\ BlendIdle /\ AdjustIdle /\ FetchIdle /\ EngineIdle

NextFeatures ==
    \/ /\ ft_in = None
       /\ \E recent \in SuppliedHistories, size \in WindowSettings : ReceiveHistory(recent, size)
       /\ UNCHANGED <<mlvars, smvars, anvars, pipevars, rkvars, blvars, cavars, sfvars, pgvars>>
    \/ BuildFormFeatures /\ UNCHANGED <<mlvars, smvars, anvars, pipevars, rkvars, blvars, cavars, sfvars, pgvars>>

SpecFeatures == InitFeatures /\ [][NextFeatures]_vars

(***************************************************************************)
(* Claims about the inference window (checked under SpecFeatures).         *)
(***************************************************************************)
DaysOf(s) == {s[i].day : i \in DOMAIN s}

\* The days of the window_size most recent fingerprints supplied.
MostRecentDays ==
    {d \in DaysOf(ft_in[1].recent) :
        Cardinality({e \in DaysOf(ft_in[1].recent) : e > d}) < ft_in[1].window_size}

\* C25: the history the form features and fallbacks are computed over is
\* the window_size most recent fingerprints of the supplied history, in
\* whichever order it is supplied.
C25_WindowIsMostRecent ==
    ft_out # None => DaysOf(ft_out[1].history) = MostRecentDays

\* What the code does keep: the window is the most recent fingerprints when
\* the history is supplied newest first.
TrailingWhenNewestFirst ==
    (ft_out # None /\ ft_in[1].recent[1].day = Len(ft_in[1].recent))
        => DaysOf(ft_out[1].history) = MostRecentDays

(***************************************************************************)
(* The banding rules of the recommendation engine: _recommend_pressing and *)
(* _recommend_in_game_switches.  Percentages and shots are whole numbers.  *)
(***************************************************************************)
\* A field of opponent_stats: absent (None), an observed 0, or another
\* observed value.
PassAccuracies == {None, Some(0), Some(65), Some(72), Some(78), Some(83), Some(90)}
ShotTotals == {None, Some(0), Some(5), Some(14), Some(18)}
Possessions == {None, Some(0), Some(38), Some(42), Some(50)}
EngineInputs ==
    [pass_accuracy : PassAccuracies, total_shots : ShotTotals,
     possession_percent : Possessions]

\* float(d.get(key, default) or default): None and 0 both give the default
OrDefault(value, default) ==
    IF value = None \/ value = Some(0) THEN default ELSE value[1]

\* if pass_accuracy < 70: ... elif < 75: ... elif < 80: ... elif <= 85: ... else: ...
PressingAdjustment(pass_accuracy) ==
    IF pass_accuracy < 70 THEN "ULTRA HIGH PRESS"
    ELSE IF pass_accuracy < 75 THEN "HIGH PRESS"
    ELSE IF pass_accuracy < 80 THEN "TRIGGER PRESS"
    ELSE IF pass_accuracy <= 85 THEN "MID BLOCK + TRIGGERS"
    ELSE "MID/LOW BLOCK"

\* if shots >= 18: ... elif shots >= 14: ...
ShotAdjustment(shots) ==
    IF shots >= 18 THEN "PROTECT BOX"
    ELSE IF shots >= 14 THEN "DENSIFY CENTRAL ZONE" ELSE "none"

\* if poss < 40: ... elif poss < 45: ...
PossessionSwitch(poss) ==
    IF poss < 40 THEN "Add extra midfielder"
    ELSE IF poss < 45 THEN "Reduce risk in build-up" ELSE "other"

\* generate_recommendations is called with a profile.
ReceiveOpponentStats(stats) ==
    /\ pg_in = None
    /\ pg_in' = Some(stats)
    /\ UNCHANGED pg_out

\* _recommend_pressing(stats) and _recommend_in_game_switches(stats)
RecommendPressing ==
    /\ pg_in # None
    /\ pg_out = None
    /\ LET pass_accuracy == OrDefault(pg_in[1].pass_accuracy, 75)
           shots == OrDefault(pg_in[1].total_shots, 10)
           poss == OrDefault(pg_in[1].possession_percent, 50)
       IN  pg_out' = Some([pass_accuracy |-> pass_accuracy,
                           shots |-> shots,
                           poss |-> poss,
                           pressing |-> PressingAdjustment(pass_accuracy),
                           shot_volume |-> ShotAdjustment(shots),
                           switch |-> PossessionSwitch(poss)])
    /\ UNCHANGED pg_in

InitEngine ==
    /\ EngineIdle
    /\ ServiceAtRest /\ PipelineIdle
    /\ RiskIdle /\ BlendIdle /\ AdjustIdle /\ FetchIdle /\ FeaturesIdle

NextEngine ==
    \/ /\ pg_in = None
       /\ \E stats \in EngineInputs : ReceiveOpponentStats(stats)
       /\ UNCHANGED <<mlvars, smvars, anvars, pipevars, rkvars, blvars, cavars, sfvars, ftvars>>
    \/ RecommendPressing /\ UNCHANGED <<mlvars, smvars, anvars, pipevars, rkvars, blvars, cavars, sfvars, ftvars>>

SpecEngine == InitEngine /\ [][NextEngine]_vars

(***************************************************************************)
(* Claims about the banding rules (checked under SpecEngine).              *)
(***************************************************************************)
\* C26: an observed 0 is banded as 0: a pass_accuracy of 0 fires the
\* below-70 pressing rule, a possession of 0 the below-40 switch, and 0
\* shots are 0 shots; none is replaced by the default of an absent field.
C26_ZeroIsNotAbsent ==
    pg_out # None =>
      /\ pg_in[1].pass_accuracy = Some(0) =>
           pg_out[1].pass_accuracy = 0 /\ pg_out[1].pressing = "ULTRA HIGH PRESS"
      /\ pg_in[1].total_shots = Some(0) => pg_out[1].shots = 0
      /\ pg_in[1].possession_percent = Some(0) =>
           pg_out[1].poss = 0 /\ pg_out[1].switch = "Add extra midfielder"

\* What the code does keep: an observed value other than 0 is banded as
\* itself, an absent one as the default.
NonZeroIsBandedAsItself ==
    pg_out # None =>
      /\ pg_out[1].pass_accuracy =
           IF pg_in[1].pass_accuracy \in {None, Some(0)} THEN 75 ELSE pg_in[1].pass_accuracy[1]
      /\ pg_out[1].shots =
           IF pg_in[1].total_shots \in {None, Some(0)} THEN 10 ELSE pg_in[1].total_shots[1]
      /\ pg_out[1].poss =
           IF pg_in[1].possession_percent \in {None, Some(0)} THEN 50
           ELSE pg_in[1].possession_percent[1]

(***************************************************************************)
(* Claims about train_model's early return and its lock (checked under     *)
(* Spec and SpecFair).                                                     *)
(***************************************************************************)
\* A step in which call t gets its first answer: a fresh call that is not
\* queued, or a queued call that is woken.
Proceeds(t) ==
    /\ train_pc[t] \in {"idle", "done", "waiting"}
    /\ train_pc'[t] \in {"done", "collecting"}
    /\ \/ train_pc[t] = "waiting"
       \/ train_pc'[t] = "collecting"
       \/ train_result'[t] # train_result[t]
       \/ train_n'[t] # train_n[t]

SkippedUntouched(t) ==
    /\ train_result'[t] = "skipped"
    /\ UNCHANGED <<model_bundle, model_file, last_error, clock, made>>

\* C27 (as claimed): whenever a bundle is loaded and force is false,
\* train_model returns skipped and changes nothing: no dataset is collected,
\* nothing is fitted, and the in-memory bundle, the bundle file and last_error
\* are what they were.
C27_LoadedBundleSkips ==
    [][\A t \in Tasks :
          (is_model_available /\ Proceeds(t)) =>
             IF train_pc'[t] = "collecting" THEN train_force'[t]
             ELSE SkippedUntouched(t)]_vars

\* C27 (amended): on a service that is enabled, a train_model call that finds
\* a bundle loaded and has force false returns skipped and changes nothing: it
\* never reaches dataset collection, no estimator is fitted, and the in-memory
\* bundle, the bundle file and last_error are what they were.  Only a forced
\* call goes on to collect.
C27_EnabledLoadedBundleSkips ==
    [][\A t \in Tasks :
          (enabled /\ is_model_available /\ Proceeds(t)) =>
             IF train_pc'[t] = "collecting" THEN train_force'[t]
             ELSE SkippedUntouched(t)]_vars

\* An enabled service with a bundle has answered a call with skipped.
C27_Witness ==
    /\ enabled
    /\ is_model_available
    /\ \E t \in Tasks : train_pc[t] = "done" /\ train_result[t] = "skipped"

\* A disabled service that loaded a bundle at start-up has refused a call.
C27_DisabledWithBundle ==
    /\ ~enabled
    /\ is_model_available
    /\ \E t \in Tasks : train_pc[t] = "done" /\ train_result[t] = "disabled"

C28_InFlight ==
    \E t, u \in Tasks :
       /\ train_pc[t] = "installing" /\ ~train_force[t]
       /\ train_pc[u] = "waiting" /\ ~train_force[u]
       /\ model_bundle = None

(***************************************************************************)
(* SpecFair: Spec under the event loop's scheduling.  A coroutine that is  *)
(* ready to run is run: the waiter that release() woke takes the lock, and *)
(* a call inside the lock goes on to its next step, because the awaited    *)
(* dataset collection returns or raises, and the fit, joblib.dump and the  *)
(* bundle swap are synchronous code that ends.  Nothing obliges a caller   *)
(* to issue a call, so TrainCall and the predict steps are not fair.       *)
(***************************************************************************)
TrainProgress(t) ==
    \/ TrainWake(t)
    \/ \E n \in SampleCounts : TrainCollected(t, n)
    \/ TrainRaises(t)
    \/ TrainSave(t)
    \/ \E opened \in BOOLEAN : TrainSaveFails(t, opened)
    \/ TrainInstall(t)

SpecFair ==
    /\ Init
    /\ [][Next]_vars
    /\ \A t \in Tasks : WF_vars(TrainProgress(t) /\ TrainFrame)

\* C29: the lock is held only while a call is inside the training section,
\* every step that ends a call (skipped, refused, save failure, success, or
\* an exception from collection or fitting) leaves the lock free, and a
\* request that is waiting for the lock eventually completes.
C29_LockReleasedOnEveryExit ==
    /\ [](train_locked => Inside # {})
    /\ [][\A t \in Tasks : Returns(t) => ~train_locked']_vars
    /\ \A t \in Tasks : (train_pc[t] = "waiting") ~> (train_pc[t] = "done")

\* The call that held the lock ended in an exception and left it free for
\* the request queued behind it.
C29_Witness ==
    \E t, u \in Tasks :
       /\ train_pc[t] = "done" /\ train_result[t] = "raised"
       /\ train_pc[u] = "waiting"
       /\ ~train_locked

\* The same after each of the other endings of the call that held the lock.
C29_FreedAfterOtherEndings ==
    \E t, u \in Tasks :
       /\ train_pc[t] = "done"
       /\ train_result[t] \in {"refused", "save_failed", "ok"}
       /\ train_pc[u] = "waiting"
       /\ ~train_locked

====
